---- MODULE Spec2Model ----
(***************************************************************************)
(* Verification model of beatsaver-rs: the pagination adapters             *)
(* (sync_api::PageIterator, async_api::iterate_page) and the rate-limit    *)
(* classification (rate_limit, request_raw of the three backends).         *)
(***************************************************************************)
EXTENDS Integers, Sequences, FiniteSets, TLC

\* ------------------------------------------------------------------------
\* Bounds of the model
\* ------------------------------------------------------------------------
NumPages == 3      \* the server has pages 0 .. NumPages-1
MaxDocs == 2       \* a page holds 0 .. MaxDocs documents
MaxPulls == 6      \* a consumer pulls a sequence at most MaxPulls times
FailWindow == 3    \* only the first FailWindow fetches of a sequence may fail

PageIndices == 0 .. (NumPages - 1)

\* ------------------------------------------------------------------------
\* State
\* ------------------------------------------------------------------------
VARIABLES
    pages,      \* the server: page index -> Page<T> it answers with
    failAt,     \* the fetch calls (numbered per sequence) the accessor fails
    initial,    \* sequence id -> start page given to the constructor
    iter,       \* sequence id -> state of the PageIterator / of the stream
    out,        \* sequence id -> elements the consumer has been handed
    log,        \* sequence id -> page indices the fetch function was called with
    cut,        \* sequence id -> Len(log) at the end of each pull
    resp,       \* the HTTP exchange the transport delivers for one request
    res,        \* backend -> what its request_raw returned for that exchange
    input,      \* the string handed to the MapId conversions
    conv,       \* conversion -> the MapId (or MapIdError) it produced
    call,       \* the facade operation the caller invokes, with its arguments
    sent,       \* the URLs the facade has handed to request_raw, in order
    ret         \* what the facade operation returned to the caller

vars == <<pages, failAt, initial, iter, out, log, cut, resp, res,
          input, conv, call, sent, ret>>

\* Option<usize>
None == [some |-> FALSE, n |-> 0]
Some(n) == [some |-> TRUE, n |-> n]

\* Option<inner stream> held by Flatten
NoInner == [some |-> FALSE, items |-> <<>>]
SomeInner(s) == [some |-> TRUE, items |-> s]

\* the error value a failing page accessor returns
RequestError == "RequestError"

\* Option<Result<T, BeatSaverApiError<E>>>, the value of one pull
SomeOk(d) == [tag |-> "Ok", item |-> d, err |-> ""]
SomeErr(e) == [tag |-> "Err", item |-> <<0, 0>>, err |-> e]
NoneItem == [tag |-> "None", item |-> <<0, 0>>, err |-> ""]

\* the documents of page p when it holds k of them: document j of page p
DocsOf(p, k) == [j \in 1 .. k |-> <<p, j>>]

RECURSIVE SumDocs(_, _)
SumDocs(lens, p) == IF p < 0 THEN 0 ELSE lens[p] + SumDocs(lens, p - 1)

\* Page<T> as the server returns it for index p
Page(p, k, nxt, total) ==
    [docs |-> DocsOf(p, k),
     total_docs |-> total,
     last_page |-> NumPages - 1,
     prev_page |-> IF p = 0 THEN None ELSE Some(p - 1),
     next_page |-> nxt]

\* the servers of the model: next_page of page p is null or a later page
NextChoices(p) == {None} \cup {Some(q) : q \in (p + 1) .. (NumPages - 1)}

Servers ==
    { [p \in PageIndices |-> Page(p, lens[p], nx[p], SumDocs(lens, NumPages - 1))] :
        lens \in [PageIndices -> 0 .. MaxDocs],
        nx \in { f \in [PageIndices -> {None} \cup {Some(q) : q \in PageIndices}] :
                    \A p \in PageIndices : f[p] \in NextChoices(p) } }

\* the pages a sequence started at s can reach
RECURSIVE Reach(_, _)
Reach(srv, s) ==
    {s} \cup (IF srv[s].next_page.some THEN Reach(srv, srv[s].next_page.n) ELSE {})

\* pages no sequence reaches are kept in one canonical form
Canonical(srv, starts) ==
    \A p \in PageIndices :
        (\A s \in starts : p \notin Reach(srv, s)) =>
            srv[p].docs = <<>> /\ ~srv[p].next_page.some

\* ------------------------------------------------------------------------
\* The page accessor (maps_hot_page and its siblings) as the fetch function
\* of a sequence: call number c of the sequence, for page index p
\* ------------------------------------------------------------------------
maps_hot_page(p, c) ==
    IF c \in failAt THEN [ok |-> FALSE, page |-> pages[p], err |-> RequestError]
    ELSE [ok |-> TRUE, page |-> pages[p], err |-> ""]

\* ------------------------------------------------------------------------
\* Blocking variant: sync_api::PageIterator
\* ------------------------------------------------------------------------
\* variant of the constructor that fetches the first page eagerly
maps_hot_page_iter_Eager(page) ==
    [self |-> [variant |-> "sync", curr |-> pages[page]],
     log |-> <<page>>]

maps_hot_page_iter(page) ==
    [self |-> [variant |-> "sync",
               curr |-> [docs |-> <<>>, total_docs |-> 0, last_page |-> 0,
                         prev_page |-> None, next_page |-> Some(page)]],
     log |-> <<>>]

\* variant of next() that clears the cursor when a fetch fails
RECURSIVE PageIterator_next_FailStop(_, _)
PageIterator_next_FailStop(self, lg) ==
    IF self.curr.docs = <<>>
    THEN IF self.curr.next_page.some
         THEN LET n == self.curr.next_page.n
                  r == maps_hot_page(n, Len(lg) + 1)
              IN  IF r.ok
                  THEN PageIterator_next_FailStop([self EXCEPT !.curr = r.page], Append(lg, n))
                  ELSE [self |-> [self EXCEPT !.curr.next_page = None],
                        log |-> Append(lg, n), item |-> SomeErr(r.err)]
         ELSE [self |-> self, log |-> lg, item |-> NoneItem]
    ELSE [self |-> [self EXCEPT !.curr.docs = Tail(@)],
          log |-> lg,
          item |-> SomeOk(Head(self.curr.docs))]

\* variant of next() that reports the end of the listing as an error
RECURSIVE PageIterator_next_EndIsErr(_, _)
PageIterator_next_EndIsErr(self, lg) ==
    IF self.curr.docs = <<>>
    THEN IF self.curr.next_page.some
         THEN LET n == self.curr.next_page.n
                  r == maps_hot_page(n, Len(lg) + 1)
              IN  IF r.ok
                  THEN PageIterator_next_EndIsErr([self EXCEPT !.curr = r.page], Append(lg, n))
                  ELSE [self |-> self, log |-> Append(lg, n), item |-> SomeErr(r.err)]
         ELSE [self |-> self, log |-> lg, item |-> SomeErr(RequestError)]
    ELSE [self |-> [self EXCEPT !.curr.docs = Tail(@)],
          log |-> lg,
          item |-> SomeOk(Head(self.curr.docs))]

\* variant of next() that tests the fetched page once instead of looping
PageIterator_next_StopOnEmpty(self, lg) ==
    LET fetched ==
            IF self.curr.docs = <<>> /\ self.curr.next_page.some
            THEN maps_hot_page(self.curr.next_page.n, Len(lg) + 1)
            ELSE [ok |-> TRUE, page |-> self.curr, err |-> ""]
        lg2 == IF self.curr.docs = <<>> /\ self.curr.next_page.some
               THEN Append(lg, self.curr.next_page.n) ELSE lg
    IN  IF ~fetched.ok
        THEN [self |-> self, log |-> lg2, item |-> SomeErr(fetched.err)]
        ELSE IF fetched.page.docs = <<>>
             THEN [self |-> [self EXCEPT !.curr = fetched.page], log |-> lg2, item |-> NoneItem]
             ELSE [self |-> [self EXCEPT !.curr = [fetched.page EXCEPT !.docs = Tail(@)]],
                   log |-> lg2,
                   item |-> SomeOk(Head(fetched.page.docs))]

\* variant of next() that, at the end, puts the cursor back on prev_page
RECURSIVE PageIterator_next_Rewind(_, _)
PageIterator_next_Rewind(self, lg) ==
    IF self.curr.docs = <<>>
    THEN IF self.curr.next_page.some
         THEN LET n == self.curr.next_page.n
                  r == maps_hot_page(n, Len(lg) + 1)
              IN  IF r.ok
                  THEN PageIterator_next_Rewind([self EXCEPT !.curr = r.page], Append(lg, n))
                  ELSE [self |-> self, log |-> Append(lg, n), item |-> SomeErr(r.err)]
         ELSE [self |-> [self EXCEPT !.curr.next_page = self.curr.prev_page],
               log |-> lg, item |-> NoneItem]
    ELSE [self |-> [self EXCEPT !.curr.docs = Tail(@)],
          log |-> lg,
          item |-> SomeOk(Head(self.curr.docs))]

\* variant of next() that goes on with the page after the one it fetched
RECURSIVE PageIterator_next_Increment(_, _)
PageIterator_next_Increment(self, lg) ==
    IF self.curr.docs = <<>>
    THEN IF self.curr.next_page.some
         THEN LET n == self.curr.next_page.n
                  r == maps_hot_page(n, Len(lg) + 1)
                  following == IF r.page.next_page.some THEN Some(n + 1) ELSE None
              IN  IF r.ok
                  THEN PageIterator_next_Increment(
                           [self EXCEPT !.curr = [r.page EXCEPT !.next_page = following]],
                           Append(lg, n))
                  ELSE [self |-> self, log |-> Append(lg, n), item |-> SomeErr(r.err)]
         ELSE [self |-> self, log |-> lg, item |-> NoneItem]
    ELSE [self |-> [self EXCEPT !.curr.docs = Tail(@)],
          log |-> lg,
          item |-> SomeOk(Head(self.curr.docs))]

RECURSIVE PageIterator_next(_, _)
PageIterator_next(self, lg) ==
    IF self.curr.docs = <<>>
    THEN IF self.curr.next_page.some
         THEN LET n == self.curr.next_page.n
                  r == maps_hot_page(n, Len(lg) + 1)
              IN  IF r.ok
                  THEN PageIterator_next([self EXCEPT !.curr = r.page], Append(lg, n))
                  ELSE [self |-> self, log |-> Append(lg, n), item |-> SomeErr(r.err)]
         ELSE [self |-> self, log |-> lg, item |-> NoneItem]
    ELSE [self |-> [self EXCEPT !.curr.docs = Tail(@)],
          log |-> lg,
          item |-> SomeOk(Head(self.curr.docs))]

\* ------------------------------------------------------------------------
\* Non-blocking variant: async_api::iterate_page
\*   stream::unfold(Some(initial), ..).flatten()
\* num is the state of unfold, next the inner stream Flatten is draining,
\* done is set once unfold has returned the end of the stream
\* ------------------------------------------------------------------------
iterate_page(init) ==
    [self |-> [variant |-> "async", num |-> Some(init), next |-> NoInner, done |-> FALSE],
     log |-> <<>>]

\* variant of the collection of a page's documents that reverses them
MapOk_Reversed(docs) == [j \in 1 .. Len(docs) |-> SomeOk(docs[Len(docs) + 1 - j])]

MapOk(docs) == [j \in 1 .. Len(docs) |-> SomeOk(docs[j])]

\* variant of the closure that ends the stream after an error
UnfoldStep_FailStop(self, lg) ==
    IF self.num.some
    THEN LET n == self.num.n
             page == maps_hot_page(n, Len(lg) + 1)
         IN  IF page.ok
             THEN [self |-> [self EXCEPT !.next = SomeInner(MapOk(page.page.docs)),
                                         !.num = page.page.next_page],
                   log |-> Append(lg, n), ended |-> FALSE]
             ELSE [self |-> [self EXCEPT !.next = SomeInner(<<SomeErr(page.err)>>),
                                         !.num = None],
                   log |-> Append(lg, n), ended |-> FALSE]
    ELSE [self |-> [self EXCEPT !.done = TRUE], log |-> lg, ended |-> TRUE]

\* one call of the closure given to unfold, lines 25-43
UnfoldStep(self, lg) ==
    IF self.num.some
    THEN LET n == self.num.n
             page == maps_hot_page(n, Len(lg) + 1)
         IN  IF page.ok
             THEN [self |-> [self EXCEPT !.next = SomeInner(MapOk(page.page.docs)),
                                         !.num = page.page.next_page],
                   log |-> Append(lg, n), ended |-> FALSE]
             ELSE [self |-> [self EXCEPT !.next = SomeInner(<<SomeErr(page.err)>>),
                                         !.num = Some(n)],
                   log |-> Append(lg, n), ended |-> FALSE]
    ELSE [self |-> [self EXCEPT !.done = TRUE], log |-> lg, ended |-> TRUE]

\* one pull of the flattened stream (StreamExt::next on the result)
RECURSIVE Stream_next(_, _)
Stream_next(self, lg) ==
    IF self.next.some
    THEN IF self.next.items # <<>>
         THEN [self |-> [self EXCEPT !.next.items = Tail(@)],
               log |-> lg,
               item |-> Head(self.next.items)]
         ELSE Stream_next([self EXCEPT !.next = NoInner], lg)
    ELSE LET u == UnfoldStep(self, lg)
         IN  IF u.ended
             THEN [self |-> u.self, log |-> u.log, item |-> NoneItem]
             ELSE Stream_next(u.self, u.log)

\* BeatSaverApiSync::maps_hot and its siblings without a page argument
maps_hot == maps_hot_page_iter(0)

\* BeatSaverApiAsync::maps_hot and its siblings without a page argument
async_maps_hot == iterate_page(0)

\* ------------------------------------------------------------------------
\* Specification of the pagination sequences
\* ------------------------------------------------------------------------
Construct(variant, page) ==
    IF variant = "sync" THEN maps_hot_page_iter(page) ELSE iterate_page(page)

Ids == {1, 2}

InitSeqs(variants, starts) ==
    /\ initial = starts
    /\ iter = [i \in Ids |-> Construct(variants[i], starts[i]).self]
    /\ log = [i \in Ids |-> Construct(variants[i], starts[i]).log]
    /\ out = [i \in Ids |-> <<>>]
    /\ cut = [i \in Ids |-> <<>>]
    /\ resp = <<>>
    /\ res = <<>>
    /\ input = <<>> /\ conv = <<>> /\ call = <<>> /\ sent = <<>> /\ ret = <<>>

\* one blocking iterator and one stream over the same fetch function and start
Init ==
    /\ failAt \in SUBSET (1 .. FailWindow)
    /\ \E s \in PageIndices :
         /\ pages \in {srv \in Servers : Canonical(srv, {s})}
         /\ InitSeqs([i \in Ids |-> IF i = 1 THEN "sync" ELSE "async"],
                     [i \in Ids |-> s])

\* variant of the pull in which the iterators of one client share one cursor
SyncPull_SharedCursor(i) ==
    /\ iter[i].variant = "sync"
    /\ Len(out[i]) < MaxPulls
    /\ LET r == PageIterator_next(iter[i], log[i])
       IN  /\ iter' = [j \in Ids |-> IF iter[j].variant = "sync" THEN r.self ELSE iter[j]]
           /\ log' = [log EXCEPT ![i] = r.log]
           /\ out' = [out EXCEPT ![i] = Append(@, r.item)]
           /\ cut' = [cut EXCEPT ![i] = Append(@, Len(r.log))]
    /\ UNCHANGED <<pages, failAt, initial, resp, res, input, conv, call, sent, ret>>

\* the consumer calls next() on blocking iterator i
SyncPull(i) ==
    /\ iter[i].variant = "sync"
    /\ Len(out[i]) < MaxPulls
    /\ LET r == PageIterator_next(iter[i], log[i])
       IN  /\ iter' = [iter EXCEPT ![i] = r.self]
           /\ log' = [log EXCEPT ![i] = r.log]
           /\ out' = [out EXCEPT ![i] = Append(@, r.item)]
           /\ cut' = [cut EXCEPT ![i] = Append(@, Len(r.log))]
    /\ UNCHANGED <<pages, failAt, initial, resp, res, input, conv, call, sent, ret>>

\* the consumer awaits next() on stream i; a stream that has ended is not
\* polled again
AsyncPull(i) ==
    /\ iter[i].variant = "async"
    /\ ~iter[i].done
    /\ Len(out[i]) < MaxPulls
    /\ LET r == Stream_next(iter[i], log[i])
       IN  /\ iter' = [iter EXCEPT ![i] = r.self]
           /\ log' = [log EXCEPT ![i] = r.log]
           /\ out' = [out EXCEPT ![i] = Append(@, r.item)]
           /\ cut' = [cut EXCEPT ![i] = Append(@, Len(r.log))]
    /\ UNCHANGED <<pages, failAt, initial, resp, res, input, conv, call, sent, ret>>

Next == \E i \in Ids : SyncPull(i) \/ AsyncPull(i)

Spec == Init /\ [][Next]_vars

TypeOK ==
    /\ \A i \in Ids : Len(out[i]) = Len(cut[i])
    /\ \A i \in Ids : Len(out[i]) <= MaxPulls

\* ------------------------------------------------------------------------
\* Reading the history of a sequence
\* ------------------------------------------------------------------------
SyncIds == {i \in Ids : iter[i].variant = "sync"}
AsyncIds == {i \in Ids : iter[i].variant = "async"}

Pulls(i) == 1 .. Len(out[i])

\* number of fetches sequence i had made when its pull k returned
Cut(i, k) == IF k = 0 THEN 0 ELSE cut[i][k]

\* the fetch calls (by number) and the page indices fetched during pull k
CallsIn(i, k) == (Cut(i, k - 1) + 1) .. Cut(i, k)
FetchesIn(i, k) == SubSeq(log[i], Cut(i, k - 1) + 1, Cut(i, k))

\* call c of sequence i returned Ok
CallOk(c) == c \notin failAt

\* the documents of the pages the first m calls of sequence i fetched with success
RECURSIVE FetchedDocs(_, _)
FetchedDocs(i, m) ==
    IF m = 0 THEN <<>>
    ELSE FetchedDocs(i, m - 1) \o (IF CallOk(m) THEN pages[log[i][m]].docs ELSE <<>>)

\* the documents among the first k elements handed to the consumer
RECURSIVE ItemsOf(_, _)
ItemsOf(s, k) ==
    IF k = 0 THEN <<>>
    ELSE ItemsOf(s, k - 1) \o (IF s[k].tag = "Ok" THEN <<s[k].item>> ELSE <<>>)

\* the documents of the chain of pages that starts at s
RECURSIVE ChainDocs(_)
ChainDocs(s) ==
    pages[s].docs \o (IF pages[s].next_page.some THEN ChainDocs(pages[s].next_page.n) ELSE <<>>)

IsLastOfPage(d) == d[2] = Len(pages[d[1]].docs)

\* what the consumer sees before an error at pull k: every document of every
\* page fetched before the failing call, in order
ItemsBeforeErr(i, k) == ItemsOf(out[i], k - 1) = FetchedDocs(i, Cut(i, k) - 1)

\* pull k of sequence i returned the error of a failed fetch
ErrAt(i, k) == out[i][k].tag = "Err"

AllFetchesOk(i) == \A c \in 1 .. Len(log[i]) : CallOk(c)

C3_ItemsAreChainDocs ==
    \A i \in Ids :
        AllFetchesOk(i) =>
            LET chain == ChainDocs(initial[i])
            IN  \A k \in Pulls(i) :
                    out[i][k] = IF k <= Len(chain) THEN SomeOk(chain[k]) ELSE NoneItem

\* both variants have drained a chain of at least two pages holding documents
C3_Witness ==
    \A i \in Ids :
        /\ AllFetchesOk(i)
        /\ Len(out[i]) >= 4
        /\ out[i][Len(out[i])] = NoneItem
        /\ \E k \in Pulls(i) : out[i][k].tag = "Ok" /\ out[i][k].item[1] # out[i][1].item[1]

\* ------------------------------------------------------------------------
\* C4: once the last document of a page with next_page = None has been
\* yielded, every later pull returns the end of the sequence and fetches
\* nothing; a fetched page with no documents and next_page = None ends the
\* sequence in the pull that fetched it.
\* ------------------------------------------------------------------------
C4_CleanEnd ==
    \A i \in Ids : \A k \in Pulls(i) :
        /\ ( /\ out[i][k].tag = "Ok"
              /\ IsLastOfPage(out[i][k].item)
              /\ ~pages[out[i][k].item[1]].next_page.some )
            => \A m \in (k + 1) .. Len(out[i]) :
                   out[i][m] = NoneItem /\ FetchesIn(i, m) = <<>>
        /\ ( /\ FetchesIn(i, k) # <<>>
              /\ CallOk(Cut(i, k))
              /\ pages[log[i][Cut(i, k)]].docs = <<>>
              /\ ~pages[log[i][Cut(i, k)]].next_page.some )
            => /\ out[i][k] = NoneItem
               /\ \A m \in (k + 1) .. Len(out[i]) :
                      out[i][m] = NoneItem /\ FetchesIn(i, m) = <<>>

\* the blocking iterator was pulled twice more after the last document of
\* the last page, and the stream has ended after it
C4_Witness ==
    /\ \E i \in SyncIds : \E k \in Pulls(i) :
          /\ out[i][k].tag = "Ok" /\ IsLastOfPage(out[i][k].item)
          /\ ~pages[out[i][k].item[1]].next_page.some
          /\ k + 2 <= Len(out[i])
    /\ \E i \in AsyncIds : \E k \in Pulls(i) :
          /\ out[i][k].tag = "Ok" /\ IsLastOfPage(out[i][k].item)
          /\ ~pages[out[i][k].item[1]].next_page.some
          /\ k + 1 = Len(out[i])

\* ------------------------------------------------------------------------
\* C5: a fetch that returns a page with no documents and next_page = Some(n)
\* is never the last fetch of its pull: the same pull goes on to fetch n, so
\* the element the pull returns belongs to a later fetch; both variants.
\* ------------------------------------------------------------------------
EmptyWithNext(p) == pages[p].docs = <<>> /\ pages[p].next_page.some

C5_EmptyPageSkipped ==
    \A i \in Ids : \A k \in Pulls(i) : \A c \in CallsIn(i, k) :
        (CallOk(c) /\ EmptyWithNext(log[i][c])) =>
            /\ c < Cut(i, k)
            /\ log[i][c + 1] = pages[log[i][c]].next_page.n
            /\ out[i][k].tag = "Ok" => out[i][k].item[1] # log[i][c]

\* one pull of each variant fetched two empty pages in a row and returned a
\* document of the third
C5_Witness ==
    \A i \in Ids : \E k \in Pulls(i) :
        /\ Cut(i, k) - Cut(i, k - 1) = 3
        /\ \A c \in CallsIn(i, k) : CallOk(c)
        /\ out[i][k].tag = "Ok"

\* ------------------------------------------------------------------------
\* C6: the blocking iterator and the stream, given the same fetch function
\* and start page, return the same element and call the fetch function with
\* the same page indices in every pull both have made (the stream being
\* pulled until it ends).
\* ------------------------------------------------------------------------
C6_VariantsAgree ==
    \A i \in SyncIds : \A j \in AsyncIds :
        initial[i] = initial[j] =>
            \A k \in Pulls(i) \cap Pulls(j) :
                out[i][k] = out[j][k] /\ FetchesIn(i, k) = FetchesIn(j, k)

\* both variants have returned a document, an error and the end of the sequence
C6_Witness ==
    \E i \in SyncIds : \E j \in AsyncIds :
        /\ Len(out[i]) = Len(out[j])
        /\ \E k \in Pulls(j) : out[j][k].tag = "Err"
        /\ \E k \in Pulls(j) : out[j][k].tag = "Ok"
        /\ out[j][Len(out[j])] = NoneItem

\* ------------------------------------------------------------------------
\* C7: no fetch is made before the first pull; a pull made after a document
\* that is not the last of its page fetches nothing and returns the next
\* document of that page; and within one pull every fetch but the last
\* returned an empty page, so no pull fetches more than it needs to produce
\* its element.
\* ------------------------------------------------------------------------
C7_PullDriven ==
    \A i \in Ids :
        /\ out[i] = <<>> => log[i] = <<>>
        /\ Len(log[i]) = Cut(i, Len(out[i]))
        /\ \A k \in Pulls(i) :
              /\ ( /\ k < Len(out[i])
                    /\ out[i][k].tag = "Ok"
                    /\ ~IsLastOfPage(out[i][k].item) )
                  => /\ FetchesIn(i, k + 1) = <<>>
                     /\ out[i][k + 1] = SomeOk(<<out[i][k].item[1], out[i][k].item[2] + 1>>)
              /\ \A c \in CallsIn(i, k) :
                    c < Cut(i, k) => CallOk(c) /\ pages[log[i][c]].docs = <<>>

\* both variants returned the two documents of one page in consecutive pulls
C7_Witness ==
    \A i \in Ids : \E k \in Pulls(i) :
        /\ k < Len(out[i])
        /\ out[i][k].tag = "Ok" /\ ~IsLastOfPage(out[i][k].item)
        /\ Len(log[i]) >= 1

\* ------------------------------------------------------------------------
\* Two sequences created from the same client (both blocking or both
\* streams) over the same listing, the second started at any page of the
\* chain of the first, pulled in any interleaving; at most one call of each
\* sequence fails
\* ------------------------------------------------------------------------
InitTwo ==
    /\ failAt \in {{}} \cup {{c} : c \in 1 .. FailWindow}
    /\ \E v \in {"sync", "async"} : \E s \in PageIndices :
         /\ pages \in {srv \in Servers : Canonical(srv, {s})}
         /\ \E t \in Reach(pages, s) :
              InitSeqs([i \in Ids |-> v], [i \in Ids |-> IF i = 1 THEN s ELSE t])

SpecTwo == InitTwo /\ [][Next]_vars

\* one pull of a sequence taken by itself
PullFn(self, lg) ==
    IF self.variant = "sync" THEN PageIterator_next(self, lg) ELSE Stream_next(self, lg)

\* the sequence of the given variant and start page after k pulls, driven alone
RECURSIVE Alone(_, _, _)
Alone(variant, start, k) ==
    IF k = 0
    THEN [self |-> Construct(variant, start).self,
          log |-> Construct(variant, start).log,
          out |-> <<>>, cut |-> <<>>]
    ELSE LET a == Alone(variant, start, k - 1)
             r == PullFn(a.self, a.log)
         IN  [self |-> r.self, log |-> r.log,
              out |-> Append(a.out, r.item), cut |-> Append(a.cut, Len(r.log))]

Wide(k, v) == [k |-> k, v |-> v]

IsNegative(x) == x.k < 0 \/ (x.k = 0 /\ x.v < 0)

\* x >= 2^63
AboveI64(x) == x.k > 1 \/ (x.k = 1 /\ x.v >= 0)

\* `value as i64` of a u64: values from 2^63 up wrap by 2^64
U64AsI64(x) == IF AboveI64(x) THEN Wide(x.k - 2, x.v) ELSE x

\* `value as u64` of an i64: negative values wrap by 2^64
I64AsU64(x) == IF IsNegative(x) THEN Wide(x.k + 2, x.v) ELSE x

\* Rust's / and % on i64 truncate toward zero
RustDiv(a, b) == IF a >= 0 THEN a \div b ELSE -((-a) \div b)
RustRem(a, b) == a - b * RustDiv(a, b)

\* results of the fallible functions
Done(tag, kind, value) == [tag |-> tag, kind |-> kind, value |-> value]
NoValue == [secs |-> 0, nsecs |-> 0, millis |-> Wide(0, 0)]
DecodeError == Done("Err", "SerializeError", NoValue)
Panicked == Done("Panic", "", NoValue)

\* DateTimeVisitor::from: NaiveDateTime::from_timestamp(ts / 1000,
\* ((ts % 1000) as u32) * 1_000_000).  A negative remainder cast to u32 is
\* at least 2^32 - 999, so the product overflows u32 (a panic when overflow
\* is checked) and, wrapped, is not below 2_000_000_000, which
\* from_timestamp rejects with a panic; seconds of a timestamp beyond the
\* sampled range (k # 0) are outside of what NaiveDateTime can hold.
DateTimeVisitor_from(ts) ==
    IF ts.k # 0 THEN Panicked
    ELSE IF RustRem(ts.v, 1000) < 0 THEN Panicked
    ELSE Done("Ok", "", [secs |-> RustDiv(ts.v, 1000),
                         nsecs |-> RustRem(ts.v, 1000) * 1000000,
                         millis |-> Wide(0, 0)])

\* DurationVisitor::from: Duration::from_millis(v)
DurationVisitor_from(v) ==
    Done("Ok", "", [secs |-> 0, nsecs |-> 0, millis |-> v])

\* a JSON value: t is "absent", "int", "float" or "other" (null, string, ...);
\* n is the number when t = "int".  serde_json hands an integer in
\* 0 ..= u64::MAX to visit_u64, one in i64::MIN .. 0 to visit_i64, and any
\* other number to visit_f64.
JsonAbsent == [t |-> "absent", n |-> Wide(0, 0)]
JsonInt(x) == [t |-> "int", n |-> x]
JsonFloat == [t |-> "float", n |-> Wide(0, 0)]
JsonOther == [t |-> "other", n |-> Wide(0, 0)]

\* from_timestamp: d.deserialize_i64(DateTimeVisitor)
from_timestamp(val) ==
    IF val.t # "int" THEN DecodeError
    ELSE IF IsNegative(val.n) THEN DateTimeVisitor_from(val.n)
    ELSE DateTimeVisitor_from(U64AsI64(val.n))

\* variant of the duration visitor that reads the number as seconds
from_duration_Seconds(val) ==
    IF val.t # "int" THEN DecodeError
    ELSE IF val.n.k = 0 /\ val.n.v >= 0 THEN DurationVisitor_from(Wide(0, val.n.v * 1000))
    ELSE DurationVisitor_from(I64AsU64(val.n))

\* from_duration: d.deserialize_u64(DurationVisitor)
from_duration(val) ==
    IF val.t # "int" THEN DecodeError
    ELSE IF IsNegative(val.n) THEN DurationVisitor_from(I64AsU64(val.n))
    ELSE DurationVisitor_from(val.n)

\* a JSON document: kind is "invalid" (not JSON), "other" (JSON, not an
\* object) or "object"; an object is read in the order reset, resetAfter,
\* reset_after, other keys being ignored
JsonDoc(kind, reset, resetAfter, reset_after) ==
    [kind |-> kind, reset |-> reset, resetAfter |-> resetAfter, reset_after |-> reset_after]

NoLimit == [reset |-> NoValue, reset_after |-> NoValue]

\* serde_json::from_str::<BeatSaverRateLimit>
BeatSaverRateLimit_from_str(doc) ==
    IF doc.kind # "object" THEN [tag |-> "Err", limit |-> NoLimit]
    ELSE
    LET hasReset == doc.reset.t # "absent"
        hasA == doc.resetAfter.t # "absent"
        hasB == doc.reset_after.t # "absent"
        r == from_timestamp(doc.reset)
        a == from_duration(doc.resetAfter)
        b == from_duration(doc.reset_after)
    IN  IF hasReset /\ r.tag # "Ok" THEN [tag |-> r.tag, limit |-> NoLimit]
        ELSE IF hasA /\ a.tag # "Ok" THEN [tag |-> a.tag, limit |-> NoLimit]
        ELSE IF hasA /\ hasB THEN [tag |-> "Err", limit |-> NoLimit]
        ELSE IF hasB /\ b.tag # "Ok" THEN [tag |-> b.tag, limit |-> NoLimit]
        ELSE IF ~hasReset \/ ~(hasA \/ hasB) THEN [tag |-> "Err", limit |-> NoLimit]
        ELSE [tag |-> "Ok",
              limit |-> [reset |-> r.value,
                         reset_after |-> IF hasA THEN a.value ELSE b.value]]

\* a response body: utf8 tells whether the bytes are valid UTF-8, doc what
\* the text (read leniently when they are not) is as JSON
Body(utf8, doc) == [utf8 |-> utf8, doc |-> doc]
NoBody == Body(TRUE, JsonDoc("invalid", JsonAbsent, JsonAbsent, JsonAbsent))

\* Result<Bytes, BeatSaverApiError<T>> of request_raw
Ok(body) == [tag |-> "Ok", kind |-> "", body |-> body, limit |-> NoLimit]
Err(kind) == [tag |-> "Err", kind |-> kind, body |-> NoBody, limit |-> NoLimit]
RateLimitError(limit) == [tag |-> "Err", kind |-> "RateLimitError", body |-> NoBody, limit |-> limit]
Panic == [tag |-> "Panic", kind |-> "", body |-> NoBody, limit |-> NoLimit]
Pending == [tag |-> "Pending", kind |-> "", body |-> NoBody, limit |-> NoLimit]

\* variant of rate_limit that decodes the bytes leniently (from_utf8_lossy)
rate_limit_Lossy(data) ==
    LET limit == BeatSaverRateLimit_from_str(data.doc)
    IN  IF limit.tag = "Panic" THEN Panic
        ELSE IF limit.tag = "Err" THEN Err("SerializeError")
        ELSE RateLimitError(limit.limit)

\* rate_limit
rate_limit(data) ==
    IF ~data.utf8 THEN Err("Utf8Error")
    ELSE LET limit == BeatSaverRateLimit_from_str(data.doc)
         IN  IF limit.tag = "Panic" THEN Panic
             ELSE IF limit.tag = "Err" THEN Err("SerializeError")
             ELSE RateLimitError(limit.limit)

\* the HTTP exchange: send is whether a response arrived at all, status its
\* status code, read whether its body could be read to the end
Response(send, status, read, body) ==
    [send |-> send, status |-> status, read |-> read, body |-> body]

TOO_MANY_REQUESTS == 429

\* BeatSaverReqwest::request_raw
reqwest_request_raw(r) ==
    IF ~r.send THEN Err("RequestError")
    ELSE IF ~r.read THEN Err("RequestError")
    ELSE IF r.status = TOO_MANY_REQUESTS THEN rate_limit(r.body)
    ELSE Ok(r.body)

\* variant of the surf backend that passes every body through unclassified
surf_request_raw_NoClassify(r) ==
    IF ~r.send THEN Err("RequestError")
    ELSE IF ~r.read THEN Err("RequestError")
    ELSE Ok(r.body)

\* BeatSaverSurf::request_raw
surf_request_raw(r) ==
    IF ~r.send THEN Err("RequestError")
    ELSE IF ~r.read THEN Err("RequestError")
    ELSE IF r.status = TOO_MANY_REQUESTS THEN rate_limit(r.body)
    ELSE Ok(r.body)

\* variant of the ureq backend that turns every other error status into an error
ureq_request_raw_StatusIsError(r) ==
    IF ~r.send THEN Err("RequestError")
    ELSE IF r.status < 400
         THEN IF ~r.read THEN Err("IoError") ELSE Ok(r.body)
         ELSE IF ~r.read THEN Err("IoError")
              ELSE IF r.status = 429 THEN rate_limit(r.body)
              ELSE Err("RequestError")

\* BeatSaverUreq::request_raw: ureq answers a status of 400 and above with
\* Err(Error::Status(code, resp)), a lower one with Ok(resp)
ureq_request_raw(r) ==
    IF ~r.send THEN Err("RequestError")
    ELSE IF r.status < 400
         THEN IF ~r.read THEN Err("IoError") ELSE Ok(r.body)
         ELSE IF ~r.read THEN Err("IoError")
              ELSE IF r.status = 429 THEN rate_limit(r.body)
              ELSE Ok(r.body)

Backends == {"reqwest", "surf", "ureq"}

\* the numbers, values, documents and exchanges of the model
Numbers ==
    {Wide(0, v) : v \in {-1001, -1000, -1, 0, 1, 999, 5000, 1700000}}
        \cup {Wide(-1, 0), Wide(1, -1), Wide(1, 0), Wide(2, -1)}

JsonValues == {JsonAbsent, JsonFloat, JsonOther} \cup {JsonInt(x) : x \in Numbers}

JsonDocs ==
    {JsonDoc("invalid", JsonAbsent, JsonAbsent, JsonAbsent),
     JsonDoc("other", JsonAbsent, JsonAbsent, JsonAbsent)}
        \cup {JsonDoc("object", r, a, b) :
                 r \in JsonValues, a \in JsonValues, b \in {JsonAbsent, JsonInt(Wide(0, 5000))}}

Bodies == {Body(u, d) : u \in BOOLEAN, d \in JsonDocs}

Statuses == {200, 404, 429, 500}

Responses ==
    {Response(FALSE, 200, TRUE, NoBody)}
        \cup {Response(TRUE, st, FALSE, NoBody) : st \in Statuses}
        \cup {Response(TRUE, st, TRUE, b) : st \in Statuses, b \in Bodies}

InitRL ==
    /\ resp \in Responses
    /\ res = [b \in Backends |-> Pending]
    /\ pages = <<>> /\ failAt = {} /\ initial = <<>>
    /\ iter = <<>> /\ out = <<>> /\ log = <<>> /\ cut = <<>>
    /\ input = <<>> /\ conv = <<>> /\ call = <<>> /\ sent = <<>> /\ ret = <<>>

ReqwestRequest ==
    /\ res["reqwest"] = Pending
    /\ res' = [res EXCEPT !["reqwest"] = reqwest_request_raw(resp)]
    /\ UNCHANGED <<pages, failAt, initial, iter, out, log, cut, resp,
                 input, conv, call, sent, ret>>

SurfRequest ==
    /\ res["surf"] = Pending
    /\ res' = [res EXCEPT !["surf"] = surf_request_raw(resp)]
    /\ UNCHANGED <<pages, failAt, initial, iter, out, log, cut, resp,
                 input, conv, call, sent, ret>>

UreqRequest ==
    /\ res["ureq"] = Pending
    /\ res' = [res EXCEPT !["ureq"] = ureq_request_raw(resp)]
    /\ UNCHANGED <<pages, failAt, initial, iter, out, log, cut, resp,
                 input, conv, call, sent, ret>>

NextRL == ReqwestRequest \/ SurfRequest \/ UreqRequest

SpecRL == InitRL /\ [][NextRL]_vars

\* the exchange was answered with a body that request_raw got to classify
Delivered == resp.send /\ resp.read
Throttled == Delivered /\ resp.status = TOO_MANY_REQUESTS
Returned(b) == res[b] # Pending

\* the body is the rate-limit document of the API: valid UTF-8, an object
\* whose reset is a millisecond timestamp from the epoch on and whose
\* resetAfter is a millisecond count that fits u64
WellFormedRateLimit(body) ==
    /\ body.utf8
    /\ body.doc.kind = "object"
    /\ body.doc.reset.t = "int"
    /\ body.doc.reset.n.k = 0 /\ body.doc.reset.n.v >= 0
    /\ body.doc.resetAfter.t = "int"
    /\ ~IsNegative(body.doc.resetAfter.n)
    /\ body.doc.reset_after.t = "absent"

\* ------------------------------------------------------------------------
\* C9: for status 429 with a well-formed rate-limit body, request_raw of
\* every backend returns Err(RateLimitError), never Ok(body), and the
\* error's reset_after is the body's resetAfter in milliseconds.
\* ------------------------------------------------------------------------
C9_RateLimitOn429 ==
    \A b \in Backends :
        (Returned(b) /\ Throttled /\ WellFormedRateLimit(resp.body)) =>
            /\ res[b].tag = "Err"
            /\ res[b].kind = "RateLimitError"
            /\ res[b].limit.reset_after.millis = resp.body.doc.resetAfter.n

\* reqwest has classified a 429 whose body has resetAfter = 5000
C9_Witness ==
    /\ Throttled /\ WellFormedRateLimit(resp.body)
    /\ resp.body.doc.resetAfter.n = Wide(0, 5000)
    /\ resp.body.doc.reset.n = Wide(0, 1700000)
    /\ res["reqwest"].kind = "RateLimitError"
    /\ res["reqwest"].limit.reset_after.millis = Wide(0, 5000)

\* ------------------------------------------------------------------------
\* C10: for a 429 whose body is not valid UTF-8 the result is Utf8Error,
\* whatever the bytes would decode to; for one whose body is valid UTF-8
\* and does not decode as the rate-limit structure it is SerializeError; a
\* RateLimitError is returned only for a body that decoded, with the values
\* decoded from it.
\* ------------------------------------------------------------------------
Decoded(body) == BeatSaverRateLimit_from_str(body.doc)

C10_TypedDecodeErrors ==
    \A b \in Backends :
        (Returned(b) /\ Throttled) =>
            /\ ~resp.body.utf8 => res[b] = Err("Utf8Error")
            /\ (resp.body.utf8 /\ Decoded(resp.body).tag = "Err")
                   => res[b] = Err("SerializeError")
            /\ res[b].kind = "RateLimitError" =>
                   /\ resp.body.utf8
                   /\ resp.body.doc.kind = "object"
                   /\ resp.body.doc.reset.t = "int"
                   /\ resp.body.doc.resetAfter.t = "int" \/ resp.body.doc.reset_after.t = "int"

\* a 429 with bytes that are not UTF-8 but would read as a rate-limit
\* document has been classified, by every backend
C10_Witness ==
    /\ Throttled
    /\ ~resp.body.utf8
    /\ WellFormedRateLimit([resp.body EXCEPT !.utf8 = TRUE])
    /\ \A b \in Backends : res[b] = Err("Utf8Error")

\* a 429 with a UTF-8 body that lacks reset has been classified
C10_WitnessJson ==
    /\ Throttled
    /\ resp.body.utf8 /\ resp.body.doc.kind = "object"
    /\ resp.body.doc.reset.t = "absent"
    /\ \A b \in Backends : res[b] = Err("SerializeError")

\* ------------------------------------------------------------------------
\* C11: for a delivered response whose status is not 429, request_raw of
\* every backend returns Ok with the body it received, whatever the status
\* and whatever the body looks like.
\* ------------------------------------------------------------------------
C11_PassThrough ==
    \A b \in Backends :
        (Returned(b) /\ Delivered /\ resp.status # TOO_MANY_REQUESTS) =>
            res[b] = Ok(resp.body)

\* a 500 whose body is a rate-limit document has been passed through by
\* every backend
C11_Witness ==
    /\ Delivered /\ resp.status = 500
    /\ WellFormedRateLimit(resp.body)
    /\ \A b \in Backends : res[b] = Ok(resp.body)

\* ------------------------------------------------------------------------
\* C12: for every status and body the transport delivers, and when the
\* transport delivers no response at all, the three backends return the
\* same outcome.
\* ------------------------------------------------------------------------
C12_BackendsAgree ==
    (Delivered \/ ~resp.send) =>
        \A b1 \in Backends : \A b2 \in Backends :
            (Returned(b1) /\ Returned(b2)) => res[b1] = res[b2]

\* the three backends have classified the same 429 as the same rate limit
C12_Witness ==
    /\ Throttled /\ WellFormedRateLimit(resp.body)
    /\ \A b \in Backends : Returned(b) /\ res[b].kind = "RateLimitError"

\* ------------------------------------------------------------------------
\* Strings and map identifiers
\* ------------------------------------------------------------------------
\* a String is the sequence of its characters; every character of the model
\* is one byte long in UTF-8 except "U+00E9", which is two
ByteLen(c) == IF c = "U+00E9" THEN 2 ELSE 1

RECURSIVE String_len(_)
\* String::len: the length in bytes
String_len(s) == IF s = <<>> THEN 0 ELSE ByteLen(Head(s)) + String_len(Tail(s))

HexLower == <<"0", "1", "2", "3", "4", "5", "6", "7", "8", "9", "a", "b", "c", "d", "e", "f">>
HexUpper == <<"0", "1", "2", "3", "4", "5", "6", "7", "8", "9", "A", "B", "C", "D", "E", "F">>

\* char::to_digit(16)
IsHexChar(c) == \E i \in 1 .. 16 : HexLower[i] = c \/ HexUpper[i] = c
HexVal(c) == (CHOOSE i \in 1 .. 16 : HexLower[i] = c \/ HexUpper[i] = c) - 1

\* hex::decode(..).is_ok(): an even number of bytes, each a hex character
hex_decode_is_ok(s) ==
    /\ String_len(s) % 2 = 0
    /\ \A i \in 1 .. Len(s) : IsHexChar(s[i])

\* the strings handed to the MapId conversions name 40 bytes as a hash
HASH_LEN == 40
\* usize is 64 bits wide: sixteen hexadecimal digits
USIZE_HEX_DIGITS == 16

RECURSIVE Strip(_)
\* a usize is the sequence of its base-16 digits without leading zeros
Strip(ds) == IF ds # <<>> /\ Head(ds) = 0 THEN Strip(Tail(ds)) ELSE ds

\* Result<MapId, MapIdError>
Key(k) == [tag |-> "Key", kind |-> "", key |-> k, hash |-> <<>>]
Hash(h) == [tag |-> "Hash", kind |-> "", key |-> <<>>, hash |-> h]
InvalidHash == [tag |-> "Err", kind |-> "InvalidHash", key |-> <<>>, hash |-> <<>>]
ParseIntError(kind) == [tag |-> "Err", kind |-> kind, key |-> <<>>, hash |-> <<>>]
NotYet == [tag |-> "NotYet", kind |-> "", key |-> <<>>, hash |-> <<>>]

RECURSIVE from_digits(_, _)
\* the digit loop of usize::from_str_radix: each character is converted,
\* then the accumulator is multiplied (checked) and the digit added
from_digits(acc, rest) ==
    IF rest = <<>> THEN Key(acc)
    ELSE IF ~IsHexChar(Head(rest)) THEN ParseIntError("InvalidDigit")
    ELSE LET nxt == Strip(Append(acc, HexVal(Head(rest))))
         IN  IF Len(nxt) > USIZE_HEX_DIGITS THEN ParseIntError("PosOverflow")
             ELSE from_digits(nxt, Tail(rest))

\* usize::from_str_radix(s, 16): an empty string and a lone sign are
\* errors, a leading "+" is skipped, "-" is no sign of an unsigned type
usize_from_str_radix(s) ==
    IF s = <<>> THEN ParseIntError("Empty")
    ELSE IF s = <<"+">> \/ s = <<"-">> THEN ParseIntError("InvalidDigit")
    ELSE IF Head(s) = "+" THEN from_digits(<<>>, Tail(s))
    ELSE from_digits(<<>>, s)

\* impl TryFrom<String> for MapId
MapId_try_from_String(s) ==
    IF String_len(s) = HASH_LEN
    THEN IF hex_decode_is_ok(s) THEN Hash(s) ELSE InvalidHash
    ELSE usize_from_str_radix(s)

\* impl TryFrom<&str> for MapId: s.to_string().try_into()
MapId_try_from_str(s) == MapId_try_from_String(s)

\* a Map, of which the conversions read the hash only
Map(key, hash) == [key |-> key, hash |-> hash]

\* impl Into<MapId> for Map
Map_into(map) == Hash(map.hash)

\* impl Into<MapId> for &Map
MapRef_into(map) == Hash(map.hash)

Conversions == {"String", "str", "Map", "MapRef"}

Fill(c, n) == [i \in 1 .. n |-> c]
Subst(s, i, c) == [s EXCEPT ![i] = c]

\* lengths around those the conversions tell apart
Lengths ==
    {0, 1, 2, 4, 5, USIZE_HEX_DIGITS - 1, USIZE_HEX_DIGITS, USIZE_HEX_DIGITS + 1,
     HASH_LEN - 1, HASH_LEN, HASH_LEN + 1}

\* hex strings of those lengths, and the same with their first or last
\* character replaced
Inputs ==
    LET plain == {Fill(c, n) : c \in {"0", "2", "f", "F"}, n \in Lengths}
    IN  plain
          \cup {Subst(s, i, c) : s \in plain \ {<<>>}, i \in {1},
                                 c \in {"+", "-", "g", "U+00E9", "1"}}
          \cup {Subst(s, Len(s), c) : s \in plain \ {<<>>},
                                      c \in {"+", "-", "g", "U+00E9", "1"}}
          \cup {<<"2", "1", "4", "4">>, <<"+", "2", "1", "4", "4">>}

InitId ==
    /\ input \in Inputs
    /\ conv = [c \in Conversions |-> NotYet]
    /\ pages = <<>> /\ failAt = {} /\ initial = <<>>
    /\ iter = <<>> /\ out = <<>> /\ log = <<>> /\ cut = <<>>
    /\ resp = <<>> /\ res = <<>>
    /\ call = <<>> /\ sent = <<>> /\ ret = <<>>

Convert(c, result) ==
    /\ conv[c] = NotYet
    /\ conv' = [conv EXCEPT ![c] = result]
    /\ UNCHANGED <<pages, failAt, initial, iter, out, log, cut, resp, res,
                   input, call, sent, ret>>

\* MapId::try_from(input) for an owned String
TryFromString == Convert("String", MapId_try_from_String(input))

\* MapId::try_from(input) for a string slice
TryFromStr == Convert("str", MapId_try_from_str(input))

\* map.into() for a Map whose hash field holds the input
MapInto == Convert("Map", Map_into(Map(<<>>, input)))

\* (&map).into() for a Map whose hash field holds the input
MapRefInto == Convert("MapRef", MapRef_into(Map(<<>>, input)))

NextId == TryFromString \/ TryFromStr \/ MapInto \/ MapRefInto

SpecId == InitId /\ [][NextId]_vars

\* ------------------------------------------------------------------------
\* The facades
\* ------------------------------------------------------------------------
\* a URL is the sequence of its tokens: "/", "?", "=", the names between
\* them, and the characters of what the operations interpolate
BEATSAVER_URL == <<"https:", "/", "/", "beatsaver.com", "/">>

RECURSIVE UpToLastSlash(_)
UpToLastSlash(u) ==
    IF u = <<>> \/ u[Len(u)] = "/" THEN u
    ELSE UpToLastSlash(SubSeq(u, 1, Len(u) - 1))

\* Url::join of a relative reference: what follows the last "/" of the base
\* is replaced by the reference
Url_join(base, rel) == UpToLastSlash(base) \o rel

\* variant of the key rendering that writes short keys in decimal
format_x_Decimal(k) ==
    IF k = <<>> THEN <<"0">>
    ELSE IF Len(k) = 1
         THEN IF k[1] < 10 THEN <<HexLower[k[1] + 1]>> ELSE <<"1", HexLower[k[1] - 9]>>
         ELSE [i \in 1 .. Len(k) |-> HexLower[k[i] + 1]]

\* format!("{:x}", k) for a usize
format_x(k) ==
    IF k = <<>> THEN <<"0">>
    ELSE [i \in 1 .. Len(k) |-> HexLower[k[i] + 1]]

RECURSIVE to_string(_)
\* usize::to_string and format!("{}", page): the decimal digits
to_string(n) ==
    IF n < 10 THEN <<HexLower[n + 1]>>
    ELSE Append(to_string(n \div 10), HexLower[(n % 10) + 1])

\* the UTF-8 bytes of the characters of the model
CharCodes ==
    {<<" ", 32>>, <<"%", 37>>, <<"&", 38>>, <<"+", 43>>, <<"-", 45>>, <<"/", 47>>,
     <<"=", 61>>, <<"?", 63>>, <<"q", 113>>, <<"g", 103>>}
        \cup {<<HexLower[i], 47 + i>> : i \in 1 .. 10}
        \cup {<<HexUpper[i], 54 + i>> : i \in 11 .. 16}
        \cup {<<HexLower[i], 86 + i>> : i \in 11 .. 16}

Utf8(c) ==
    IF c = "U+00E9" THEN <<195, 169>>
    ELSE <<(CHOOSE p \in CharCodes : p[1] = c)[2]>>

RECURSIVE as_bytes(_)
as_bytes(s) == IF s = <<>> THEN <<>> ELSE Utf8(Head(s)) \o as_bytes(Tail(s))

CharOf(b) == (CHOOSE p \in CharCodes : p[2] = b)[1]

\* the bytes urlencoding leaves as they are: ASCII letters and digits and - _ . ~
Unreserved(b) ==
    \/ b \in 48 .. 57 \/ b \in 65 .. 90 \/ b \in 97 .. 122
    \/ b \in {45, 95, 46, 126}

\* variant of the encoding that leaves every ASCII byte as it is
encode_byte_AsciiRaw(b) ==
    IF b < 128 THEN <<CharOf(b)>>
    ELSE <<"%", HexUpper[(b \div 16) + 1], HexUpper[(b % 16) + 1]>>

\* urlencoding::encode, byte by byte: %XX in upper case for the others
encode_byte(b) ==
    IF Unreserved(b) THEN <<CharOf(b)>>
    ELSE <<"%", HexUpper[(b \div 16) + 1], HexUpper[(b % 16) + 1]>>

RECURSIVE encode_bytes(_)
encode_bytes(bs) == IF bs = <<>> THEN <<>> ELSE encode_byte(Head(bs)) \o encode_bytes(Tail(bs))

\* urlencoding::encode
encode(s) == encode_bytes(as_bytes(s))

\* the call of the trait method request_raw on the client
request_raw(client, r) ==
    IF client = "reqwest" THEN reqwest_request_raw(r)
    ELSE IF client = "surf" THEN surf_request_raw(r)
    ELSE ureq_request_raw(r)

\* what an operation has done: the URLs it handed to request_raw and what
\* it returned
Outcome(urls, result) == [sent |-> urls, ret |-> result]

\* variant of request that issues the request again when it failed
sync_request_Retry(client, r, url) ==
    LET data == request_raw(client, r)
    IN  Outcome(IF data.tag # "Ok" THEN <<url, url>> ELSE <<url>>,
                IF data.tag # "Ok" THEN data
                ELSE IF ~data.body.utf8 THEN Err("Utf8Error")
                ELSE Ok(data.body))

\* BeatSaverApiSync::request
sync_request(client, r, url) ==
    LET data == request_raw(client, r)
    IN  Outcome(<<url>>,
                IF data.tag # "Ok" THEN data
                ELSE IF ~data.body.utf8 THEN Err("Utf8Error")
                ELSE Ok(data.body))

\* BeatSaverApiAsync::request
async_request(client, r, url) ==
    LET data == request_raw(client, r)
    IN  Outcome(<<url>>,
                IF data.tag # "Ok" THEN data
                ELSE IF ~data.body.utf8 THEN Err("Utf8Error")
                ELSE Ok(data.body))

\* Ok(serde_json::from_str(data.as_str())?) after `let data = ..request(..)?`:
\* the text decodes as T when it is a document of that kind
from_str(T, data) ==
    Outcome(data.sent,
            IF data.ret.tag # "Ok" THEN data.ret
            ELSE IF data.ret.body.doc.kind = T THEN Ok(data.ret.body)
            ELSE Err("SerializeError"))

\* BeatSaverApiSync::map
sync_map(client, r, id) ==
    LET url == IF id.tag = "Key"
               THEN Url_join(BEATSAVER_URL, <<"api", "/", "maps", "/", "detail", "/">> \o format_x(id.key))
               ELSE Url_join(BEATSAVER_URL, <<"api", "/", "maps", "/", "by-hash", "/">> \o id.hash)
    IN  from_str("map", sync_request(client, r, url))

\* BeatSaverApiSync::maps_by_page
sync_maps_by_page(client, r, user, page) ==
    LET url == Url_join(BEATSAVER_URL, <<"api", "/", "maps", "/", "uploader", "/">> \o user.id \o <<"/">>)
    IN  from_str("page", sync_request(client, r, Url_join(url, to_string(page))))

\* BeatSaverApiSync::maps_hot_page
sync_maps_hot_page(client, r, page) ==
    LET url == Url_join(BEATSAVER_URL, <<"api", "/", "maps", "/", "hot", "/">>)
    IN  from_str("page", sync_request(client, r, Url_join(url, to_string(page))))

\* BeatSaverApiSync::maps_rating_page
sync_maps_rating_page(client, r, page) ==
    LET url == Url_join(BEATSAVER_URL, <<"api", "/", "maps", "/", "rating", "/">>)
    IN  from_str("page", sync_request(client, r, Url_join(url, to_string(page))))

\* BeatSaverApiSync::maps_latest_page
sync_maps_latest_page(client, r, page) ==
    LET url == Url_join(BEATSAVER_URL, <<"api", "/", "maps", "/", "latest", "/">>)
    IN  from_str("page", sync_request(client, r, Url_join(url, to_string(page))))

\* BeatSaverApiSync::maps_downloads_page
sync_maps_downloads_page(client, r, page) ==
    LET url == Url_join(BEATSAVER_URL, <<"api", "/", "maps", "/", "downloads", "/">>)
    IN  from_str("page", sync_request(client, r, Url_join(url, to_string(page))))

\* BeatSaverApiSync::maps_plays_page
sync_maps_plays_page(client, r, page) ==
    LET url == Url_join(BEATSAVER_URL, <<"api", "/", "maps", "/", "plays", "/">>)
    IN  from_str("page", sync_request(client, r, Url_join(url, to_string(page))))

\* variant of user that checks the length of the id only
sync_user_LengthOnly(client, r, id) ==
    IF String_len(id) # 24
    THEN Outcome(<<>>, Err("ArgumentError"))
    ELSE from_str("user", sync_request(client, r,
             Url_join(BEATSAVER_URL, <<"api", "/", "users", "/", "find", "/">> \o id)))

\* BeatSaverApiSync::user
sync_user(client, r, id) ==
    IF String_len(id) # 24 \/ ~hex_decode_is_ok(id)
    THEN Outcome(<<>>, Err("ArgumentError"))
    ELSE from_str("user", sync_request(client, r,
             Url_join(BEATSAVER_URL, <<"api", "/", "users", "/", "find", "/">> \o id)))

\* BeatSaverApiSync::search_page
sync_search_page(client, r, query, page) ==
    LET q == encode(query)
        url == Url_join(BEATSAVER_URL,
                        <<"api", "/", "search", "/", "text", "/">> \o to_string(page) \o <<"?", "q", "=">> \o q)
    IN  from_str("page", sync_request(client, r, url))

\* BeatSaverApiSync::search_advanced_page
sync_search_advanced_page(client, r, query, page) ==
    LET q == encode(query)
        url == Url_join(BEATSAVER_URL,
                        <<"api", "/", "search", "/", "advanced", "/">> \o to_string(page) \o <<"?", "q", "=">> \o q)
    IN  from_str("page", sync_request(client, r, url))

\* BeatSaverApiSync::download
sync_download(client, r, id) ==
    LET url == Url_join(BEATSAVER_URL,
                        IF id.tag = "Key"
                        THEN <<"api", "/", "download", "/", "key", "/">> \o format_x(id.key)
                        ELSE <<"api", "/", "download", "/", "hash", "/">> \o id.hash)
    IN  Outcome(<<url>>, request_raw(client, r))

\* BeatSaverApiAsync::map
async_map(client, r, id) ==
    LET url == IF id.tag = "Key"
               THEN Url_join(BEATSAVER_URL, <<"api", "/", "maps", "/", "detail", "/">> \o format_x(id.key))
               ELSE Url_join(BEATSAVER_URL, <<"api", "/", "maps", "/", "by-hash", "/">> \o id.hash)
    IN  from_str("map", async_request(client, r, url))

\* BeatSaverApiAsync::maps_by_page
async_maps_by_page(client, r, user, page) ==
    LET url == Url_join(BEATSAVER_URL, <<"api", "/", "maps", "/", "uploader", "/">> \o user.id \o <<"/">>)
    IN  from_str("page", async_request(client, r, Url_join(url, to_string(page))))

\* BeatSaverApiAsync::maps_hot_page
async_maps_hot_page(client, r, page) ==
    LET url == Url_join(BEATSAVER_URL, <<"api", "/", "maps", "/", "hot", "/">>)
    IN  from_str("page", async_request(client, r, Url_join(url, to_string(page))))

\* BeatSaverApiAsync::maps_rating_page
async_maps_rating_page(client, r, page) ==
    LET url == Url_join(BEATSAVER_URL, <<"api", "/", "maps", "/", "rating", "/">>)
    IN  from_str("page", async_request(client, r, Url_join(url, to_string(page))))

\* BeatSaverApiAsync::maps_latest_page
async_maps_latest_page(client, r, page) ==
    LET url == Url_join(BEATSAVER_URL, <<"api", "/", "maps", "/", "latest", "/">>)
    IN  from_str("page", async_request(client, r, Url_join(url, to_string(page))))

\* BeatSaverApiAsync::maps_downloads_page
async_maps_downloads_page(client, r, page) ==
    LET url == Url_join(BEATSAVER_URL, <<"api", "/", "maps", "/", "downloads", "/">>)
    IN  from_str("page", async_request(client, r, Url_join(url, to_string(page))))

\* BeatSaverApiAsync::maps_plays_page
async_maps_plays_page(client, r, page) ==
    LET url == Url_join(BEATSAVER_URL, <<"api", "/", "maps", "/", "plays", "/">>)
    IN  from_str("page", async_request(client, r, Url_join(url, to_string(page))))

\* BeatSaverApiAsync::user
async_user(client, r, id) ==
    IF String_len(id) # 24 \/ ~hex_decode_is_ok(id)
    THEN Outcome(<<>>, Err("ArgumentError"))
    ELSE from_str("user", async_request(client, r,
             Url_join(BEATSAVER_URL, <<"api", "/", "users", "/", "find", "/">> \o id)))

\* BeatSaverApiAsync::search_page
async_search_page(client, r, query, page) ==
    LET q == encode(query)
        url == Url_join(BEATSAVER_URL,
                        <<"api", "/", "search", "/", "text", "/">> \o to_string(page) \o <<"?", "q", "=">> \o q)
    IN  from_str("page", async_request(client, r, url))

\* BeatSaverApiAsync::search_advanced_page
async_search_advanced_page(client, r, query, page) ==
    LET q == encode(query)
        url == Url_join(BEATSAVER_URL,
                        <<"api", "/", "search", "/", "advanced", "/">> \o to_string(page) \o <<"?", "q", "=">> \o q)
    IN  from_str("page", async_request(client, r, url))

\* BeatSaverApiAsync::download
async_download(client, r, id) ==
    LET url == Url_join(BEATSAVER_URL,
                        IF id.tag = "Key"
                        THEN <<"api", "/", "download", "/", "key", "/">> \o format_x(id.key)
                        ELSE <<"api", "/", "download", "/", "hash", "/">> \o id.hash)
    IN  Outcome(<<url>>, request_raw(client, r))

\* BeatSaverUser
BeatSaverUser(id, username) == [id |-> id, username |-> username]
NoUser == BeatSaverUser(<<>>, <<>>)

\* one invocation of a facade operation; the client tells the facade
\* (ureq implements BeatSaverApiSync, reqwest and surf BeatSaverApiAsync)
Call(client, op, id, user, text, page) ==
    [client |-> client, op |-> op, id |-> id, user |-> user, text |-> text, page |-> page]

IsSync(client) == client = "ureq"

\* the arguments of the model
IdTexts ==
    {<<"0">>, <<"2", "1", "4", "4">>, <<"F", "F">>, <<"0", "0", "a">>, <<"+", "1", "f">>,
     Fill("f", USIZE_HEX_DIGITS), Fill("a", HASH_LEN), Fill("0", HASH_LEN)}

MapIds == {m \in {MapId_try_from_String(t) : t \in IdTexts} : m.tag # "Err"}

Users == {BeatSaverUser(Fill(c, 24), <<"q">>) : c \in {"5", "a"}}

ApiPages == {0, 1, 12, 305}

Queries ==
    {<<>>, <<"a", "b">>, <<"a", " ", "b">>, <<"a", "+", "/">>, <<"U+00E9">>,
     <<"a", "&", "q", "=", "1">>, <<"1", "0", "0", "%">>}

UserIdTexts ==
    LET plain == {Fill(c, n) : c \in {"5", "F"}, n \in {0, 23, 24, 25, HASH_LEN}}
    IN  plain
          \cup {Subst(t, 1, c) : t \in plain \ {<<>>}, c \in {"g", "U+00E9"}}
          \cup {Subst(t, Len(t), c) : t \in plain \ {<<>>}, c \in {"g", "U+00E9"}}

Calls ==
    UNION {
        {Call(c, op, id, NoUser, <<>>, 0) : op \in {"map", "download"}, id \in MapIds}
          \cup {Call(c, "maps_by_page", NotYet, u, <<>>, n) : u \in Users, n \in ApiPages}
          \cup {Call(c, op, NotYet, NoUser, <<>>, n) :
                   op \in {"maps_hot_page", "maps_rating_page", "maps_latest_page",
                           "maps_downloads_page", "maps_plays_page"},
                   n \in ApiPages}
          \cup {Call(c, op, NotYet, NoUser, q, n) :
                   op \in {"search_page", "search_advanced_page"},
                   q \in Queries, n \in {0, 12}}
          \cup {Call(c, "user", NotYet, NoUser, t, 0) : t \in UserIdTexts}
        : c \in Backends}

\* the documents a response to a facade request can carry: no JSON, JSON of
\* another shape, a map, a page of maps, a user, and two rate-limit objects
ApiDocs ==
    {JsonDoc(k, JsonAbsent, JsonAbsent, JsonAbsent) :
        k \in {"invalid", "other", "map", "page", "user"}}
      \cup {JsonDoc("object", JsonInt(Wide(0, ts)), JsonInt(Wide(0, 1000)), JsonAbsent) :
               ts \in {5000, -1}}

ApiResponses ==
    {Response(FALSE, 200, TRUE, NoBody)}
        \cup {Response(TRUE, st, FALSE, NoBody) : st \in {200, 429}}
        \cup {Response(TRUE, st, TRUE, Body(u, d)) :
                 st \in {200, 404, 429}, u \in BOOLEAN, d \in ApiDocs}

InitApi ==
    /\ call \in Calls
    /\ resp \in ApiResponses
    /\ sent = <<>>
    /\ ret = Pending
    /\ pages = <<>> /\ failAt = {} /\ initial = <<>>
    /\ iter = <<>> /\ out = <<>> /\ log = <<>> /\ cut = <<>>
    /\ res = <<>> /\ input = <<>> /\ conv = <<>>

\* the operation runs to its return
Return(op, o) ==
    /\ call.op = op
    /\ ret = Pending
    /\ sent' = o.sent
    /\ ret' = o.ret
    /\ UNCHANGED <<pages, failAt, initial, iter, out, log, cut, resp, res,
                   input, conv, call>>

\* the method of BeatSaverApiSync that call c names, applied to its arguments
sync_call(c, r) ==
    CASE c.op = "map" -> sync_map(c.client, r, c.id)
      [] c.op = "download" -> sync_download(c.client, r, c.id)
      [] c.op = "maps_by_page" -> sync_maps_by_page(c.client, r, c.user, c.page)
      [] c.op = "maps_hot_page" -> sync_maps_hot_page(c.client, r, c.page)
      [] c.op = "maps_rating_page" -> sync_maps_rating_page(c.client, r, c.page)
      [] c.op = "maps_latest_page" -> sync_maps_latest_page(c.client, r, c.page)
      [] c.op = "maps_downloads_page" -> sync_maps_downloads_page(c.client, r, c.page)
      [] c.op = "maps_plays_page" -> sync_maps_plays_page(c.client, r, c.page)
      [] c.op = "search_page" -> sync_search_page(c.client, r, c.text, c.page)
      [] c.op = "search_advanced_page" -> sync_search_advanced_page(c.client, r, c.text, c.page)
      [] c.op = "user" -> sync_user(c.client, r, c.text)

\* the method of BeatSaverApiAsync that call c names, applied to its arguments
async_call(c, r) ==
    CASE c.op = "map" -> async_map(c.client, r, c.id)
      [] c.op = "download" -> async_download(c.client, r, c.id)
      [] c.op = "maps_by_page" -> async_maps_by_page(c.client, r, c.user, c.page)
      [] c.op = "maps_hot_page" -> async_maps_hot_page(c.client, r, c.page)
      [] c.op = "maps_rating_page" -> async_maps_rating_page(c.client, r, c.page)
      [] c.op = "maps_latest_page" -> async_maps_latest_page(c.client, r, c.page)
      [] c.op = "maps_downloads_page" -> async_maps_downloads_page(c.client, r, c.page)
      [] c.op = "maps_plays_page" -> async_maps_plays_page(c.client, r, c.page)
      [] c.op = "search_page" -> async_search_page(c.client, r, c.text, c.page)
      [] c.op = "search_advanced_page" -> async_search_advanced_page(c.client, r, c.text, c.page)
      [] c.op = "user" -> async_user(c.client, r, c.text)

\* the caller invokes map on the facade its client implements
CallMap ==
    Return("map", IF IsSync(call.client)
                   THEN sync_map(call.client, resp, call.id)
                   ELSE async_map(call.client, resp, call.id))

\* the caller invokes download on the facade its client implements
CallDownload ==
    Return("download", IF IsSync(call.client)
                   THEN sync_download(call.client, resp, call.id)
                   ELSE async_download(call.client, resp, call.id))

\* the caller invokes maps_by_page on the facade its client implements
CallMapsByPage ==
    Return("maps_by_page", IF IsSync(call.client)
                   THEN sync_maps_by_page(call.client, resp, call.user, call.page)
                   ELSE async_maps_by_page(call.client, resp, call.user, call.page))

\* the caller invokes maps_hot_page on the facade its client implements
CallMapsHotPage ==
    Return("maps_hot_page", IF IsSync(call.client)
                   THEN sync_maps_hot_page(call.client, resp, call.page)
                   ELSE async_maps_hot_page(call.client, resp, call.page))

\* the caller invokes maps_rating_page on the facade its client implements
CallMapsRatingPage ==
    Return("maps_rating_page", IF IsSync(call.client)
                   THEN sync_maps_rating_page(call.client, resp, call.page)
                   ELSE async_maps_rating_page(call.client, resp, call.page))

\* the caller invokes maps_latest_page on the facade its client implements
CallMapsLatestPage ==
    Return("maps_latest_page", IF IsSync(call.client)
                   THEN sync_maps_latest_page(call.client, resp, call.page)
                   ELSE async_maps_latest_page(call.client, resp, call.page))

\* the caller invokes maps_downloads_page on the facade its client implements
CallMapsDownloadsPage ==
    Return("maps_downloads_page", IF IsSync(call.client)
                   THEN sync_maps_downloads_page(call.client, resp, call.page)
                   ELSE async_maps_downloads_page(call.client, resp, call.page))

\* the caller invokes maps_plays_page on the facade its client implements
CallMapsPlaysPage ==
    Return("maps_plays_page", IF IsSync(call.client)
                   THEN sync_maps_plays_page(call.client, resp, call.page)
                   ELSE async_maps_plays_page(call.client, resp, call.page))

\* the caller invokes search_page on the facade its client implements
CallSearchPage ==
    Return("search_page", IF IsSync(call.client)
                   THEN sync_search_page(call.client, resp, call.text, call.page)
                   ELSE async_search_page(call.client, resp, call.text, call.page))

\* the caller invokes search_advanced_page on the facade its client implements
CallSearchAdvancedPage ==
    Return("search_advanced_page", IF IsSync(call.client)
                   THEN sync_search_advanced_page(call.client, resp, call.text, call.page)
                   ELSE async_search_advanced_page(call.client, resp, call.text, call.page))

\* the caller invokes user on the facade its client implements
CallUser ==
    Return("user", IF IsSync(call.client)
                   THEN sync_user(call.client, resp, call.text)
                   ELSE async_user(call.client, resp, call.text))

NextApi ==
    \/ CallMap
    \/ CallDownload
    \/ CallMapsByPage
    \/ CallMapsHotPage
    \/ CallMapsRatingPage
    \/ CallMapsLatestPage
    \/ CallMapsDownloadsPage
    \/ CallMapsPlaysPage
    \/ CallSearchPage
    \/ CallSearchAdvancedPage
    \/ CallUser

SpecApi == InitApi /\ [][NextApi]_vars

AllHex(s) == \A i \in 1 .. Len(s) : IsHexChar(s[i])

\* the number a string of hex digits denotes in base 16
Base16(s) == Strip([i \in 1 .. Len(s) |-> HexVal(s[i])])

\* ------------------------------------------------------------------------
\* C14: parsing a MapId from a string: 40 hex characters give Hash of the
\* input; hex digits of another length that fit usize give Key of their
\* base-16 value; an input of another length with a non-hex character
\* gives a MapIdError; no input panics (every result is one of the three).
\* ------------------------------------------------------------------------
C14_ParseMapId ==
    \A c \in {"String", "str"} :
        conv[c] # NotYet =>
            /\ conv[c].tag \in {"Key", "Hash", "Err"}
            /\ (Len(input) = HASH_LEN /\ AllHex(input)) => conv[c] = Hash(input)
            /\ (Len(input) # HASH_LEN /\ input # <<>> /\ AllHex(input)
                    /\ Len(Base16(input)) <= USIZE_HEX_DIGITS)
                   => conv[c] = Key(Base16(input))
            /\ (Len(input) # HASH_LEN /\ ~AllHex(input)) => conv[c].tag = "Err"

\* ------------------------------------------------------------------------
\* C15: every MapId::Hash a conversion has produced holds exactly 40
\* hexadecimal characters.
\* ------------------------------------------------------------------------
C15_HashIs40Hex ==
    \A c \in Conversions :
        conv[c].tag = "Hash" =>
            Len(conv[c].hash) = HASH_LEN /\ AllHex(conv[c].hash)

\* ------------------------------------------------------------------------
\* C13: user(id) returns ArgumentError("id") without any request when id is
\* not exactly 24 characters or holds a non-hex character; a request is
\* made, exactly once and for api/users/find/{id}, only when id is a
\* 24-character hex string; in both facades.
\* ------------------------------------------------------------------------
ValidUserId(t) == Len(t) = 24 /\ AllHex(t)

C13_UserIdValidated ==
    (call.op = "user" /\ ret # Pending) =>
        /\ ~ValidUserId(call.text) => (ret = Err("ArgumentError") /\ sent = <<>>)
        /\ ValidUserId(call.text) =>
               sent = <<BEATSAVER_URL \o <<"api", "/", "users", "/", "find", "/">> \o call.text>>

\* an id of 24 bytes that is no hex string has been rejected without a request
C13_Witness ==
    /\ call.op = "user" /\ ret = Err("ArgumentError") /\ sent = <<>>
    /\ String_len(call.text) = 24

\* ------------------------------------------------------------------------
\* C16: the text that map and download put in the URL path for Key(k)
\* parses to Key(k) again, and it denotes k in base 16, for every k that a
\* string parses to.
\* ------------------------------------------------------------------------
RECURSIVE LastSegment(_)
LastSegment(u) ==
    IF u = <<>> \/ u[Len(u)] = "/" THEN <<>>
    ELSE Append(LastSegment(SubSeq(u, 1, Len(u) - 1)), u[Len(u)])

C16_KeyRoundTrip ==
    (call.op \in {"map", "download"} /\ call.id.tag = "Key" /\ ret # Pending) =>
        /\ Len(sent) = 1
        /\ MapId_try_from_String(LastSegment(sent[1])) = call.id
        /\ AllHex(LastSegment(sent[1]))
        /\ Base16(LastSegment(sent[1])) = call.id.key

\* the key that "00a" parses to has been rendered as "a"
C16_Witness ==
    /\ call.op = "download" /\ call.id = Key(<<10>>) /\ ret # Pending
    /\ LastSegment(sent[1]) = <<"a">>

\* ------------------------------------------------------------------------
\* C17: every operation requests the wire path of its listing, with the
\* key in hexadecimal, the hash, the user id, the page argument in decimal
\* and the percent-encoded query in their places; the sync and the async
\* facade build the same URL from the same arguments.
\* ------------------------------------------------------------------------
Digits == <<"0", "1", "2", "3", "4", "5", "6", "7", "8", "9">>

RECURSIVE DecVal(_)
DecVal(t) ==
    IF t = <<>> THEN 0
    ELSE 10 * DecVal(SubSeq(t, 1, Len(t) - 1))
           + (CHOOSE i \in 1 .. 10 : Digits[i] = t[Len(t)]) - 1

\* t is the decimal numeral of n
IsDecimalOf(t, n) ==
    /\ t # <<>>
    /\ \A i \in 1 .. Len(t) : \E j \in 1 .. 10 : Digits[j] = t[i]
    /\ Len(t) > 1 => t[1] # "0"
    /\ DecVal(t) = n

\* t is the lower-case hexadecimal numeral of k
IsHexOf(t, k) ==
    /\ t # <<>>
    /\ \A i \in 1 .. Len(t) : \E j \in 1 .. 16 : HexLower[j] = t[i]
    /\ Base16(t) = k

RECURSIVE percent_decode(_)
\* the bytes a percent-encoded text stands for
percent_decode(t) ==
    IF t = <<>> THEN <<>>
    ELSE IF t[1] = "%"
         THEN IF Len(t) >= 3 /\ IsHexChar(t[2]) /\ IsHexChar(t[3])
              THEN <<16 * HexVal(t[2]) + HexVal(t[3])>> \o percent_decode(SubSeq(t, 4, Len(t)))
              ELSE <<-1>>
         ELSE Utf8(t[1]) \o percent_decode(Tail(t))

\* t is a percent-encoding of the query q: unreserved characters and %XX only
IsEncodingOf(t, q) ==
    /\ \A i \in 1 .. Len(t) : t[i] = "%" \/ (t[i] # "U+00E9" /\ Unreserved(Utf8(t[i])[1]))
    /\ percent_decode(t) = as_bytes(q)

StartsWith(u, pre) == Len(u) >= Len(pre) /\ SubSeq(u, 1, Len(pre)) = pre
After(u, pre) == SubSeq(u, Len(pre) + 1, Len(u))

\* u is the base URL followed by the listed path, followed by a rest
Wire(u, listed) == StartsWith(u, BEATSAVER_URL \o listed)
Var(u, listed) == After(u, BEATSAVER_URL \o listed)

\* rest is {page}?q={encoded query}
IsSearchRest(rest, page, q) ==
    \E i \in 1 .. Len(rest) :
        /\ IsDecimalOf(SubSeq(rest, 1, i - 1), page)
        /\ StartsWith(After(rest, SubSeq(rest, 1, i - 1)), <<"?", "q", "=">>)
        /\ IsEncodingOf(SubSeq(rest, i + 3, Len(rest)), q)

SortOf(op) ==
    CASE op = "maps_hot_page" -> "hot"
      [] op = "maps_rating_page" -> "rating"
      [] op = "maps_latest_page" -> "latest"
      [] op = "maps_downloads_page" -> "downloads"
      [] op = "maps_plays_page" -> "plays"

IsListedUrl(c, u) ==
    CASE c.op = "map" /\ c.id.tag = "Key" ->
            /\ Wire(u, <<"api", "/", "maps", "/", "detail", "/">>)
            /\ IsHexOf(Var(u, <<"api", "/", "maps", "/", "detail", "/">>), c.id.key)
      [] c.op = "map" /\ c.id.tag = "Hash" ->
            u = BEATSAVER_URL \o <<"api", "/", "maps", "/", "by-hash", "/">> \o c.id.hash
      [] c.op = "download" /\ c.id.tag = "Key" ->
            /\ Wire(u, <<"api", "/", "download", "/", "key", "/">>)
            /\ IsHexOf(Var(u, <<"api", "/", "download", "/", "key", "/">>), c.id.key)
      [] c.op = "download" /\ c.id.tag = "Hash" ->
            u = BEATSAVER_URL \o <<"api", "/", "download", "/", "hash", "/">> \o c.id.hash
      [] c.op = "maps_by_page" ->
            /\ Wire(u, <<"api", "/", "maps", "/", "uploader", "/">> \o c.user.id \o <<"/">>)
            /\ IsDecimalOf(Var(u, <<"api", "/", "maps", "/", "uploader", "/">>
                                      \o c.user.id \o <<"/">>), c.page)
      [] c.op = "search_page" ->
            /\ Wire(u, <<"api", "/", "search", "/", "text", "/">>)
            /\ IsSearchRest(Var(u, <<"api", "/", "search", "/", "text", "/">>), c.page, c.text)
      [] c.op = "search_advanced_page" ->
            /\ Wire(u, <<"api", "/", "search", "/", "advanced", "/">>)
            /\ IsSearchRest(Var(u, <<"api", "/", "search", "/", "advanced", "/">>),
                            c.page, c.text)
      [] c.op = "user" ->
            u = BEATSAVER_URL \o <<"api", "/", "users", "/", "find", "/">> \o c.text
      [] OTHER ->
            /\ Wire(u, <<"api", "/", "maps", "/", SortOf(c.op), "/">>)
            /\ IsDecimalOf(Var(u, <<"api", "/", "maps", "/", SortOf(c.op), "/">>), c.page)

C17_WirePaths ==
    (ret # Pending /\ sent # <<>>) =>
        /\ IsListedUrl(call, sent[1])
        /\ sync_call(call, resp).sent = async_call(call, resp).sent

\* a search for "a b" on page 12 has been requested as .../12?q=a%20b
C17_Witness ==
    /\ call.op = "search_advanced_page" /\ call.page = 12 /\ call.text = <<"a", " ", "b">>
    /\ ret # Pending
    /\ sent = <<BEATSAVER_URL \o <<"api", "/", "search", "/", "advanced", "/", "1", "2",
                                   "?", "q", "=", "a", "%", "2", "0", "b">>>>

\* ------------------------------------------------------------------------
\* C18: a single-record or single-page call returns Ok only if request_raw
\* succeeded, the body is valid UTF-8 and the JSON decodes as the record
\* asked for; otherwise it returns, as a typed error, the first failure in
\* that order: the error of request_raw unchanged, else Utf8Error, else
\* SerializeError.
\* ------------------------------------------------------------------------
Target(op) == IF op = "map" THEN "map" ELSE IF op = "user" THEN "user" ELSE "page"

C18_FirstFailure ==
    (call.op # "download" /\ ret # Pending /\ sent # <<>>) =>
        LET raw == request_raw(call.client, resp)
            decodes == raw.body.doc.kind = Target(call.op)
        IN  /\ ret.tag \in {"Ok", "Err"}
            /\ ret.tag = "Ok" <=> (raw.tag = "Ok" /\ raw.body.utf8 /\ decodes)
            /\ raw.tag = "Err" => ret = raw
            /\ (raw.tag = "Ok" /\ ~raw.body.utf8) => ret = Err("Utf8Error")
            /\ (raw.tag = "Ok" /\ raw.body.utf8 /\ ~decodes) => ret = Err("SerializeError")

\* the same without the requirement that the call returns at all
C18_FirstFailureWhenReturning ==
    (call.op # "download" /\ ret # Pending /\ sent # <<>> /\ ret.tag # "Panic") =>
        LET raw == request_raw(call.client, resp)
            decodes == raw.body.doc.kind = Target(call.op)
        IN  /\ ret.tag = "Ok" <=> (raw.tag = "Ok" /\ raw.body.utf8 /\ decodes)
            /\ raw.tag = "Err" => ret = raw
            /\ (raw.tag = "Ok" /\ ~raw.body.utf8) => ret = Err("Utf8Error")
            /\ (raw.tag = "Ok" /\ raw.body.utf8 /\ ~decodes) => ret = Err("SerializeError")

\* ------------------------------------------------------------------------
\* Facade calls and pagination sequences side by side: a behaviour is one
\* facade call or the pulling of the two sequences
\* ------------------------------------------------------------------------
InitOnce == InitApi \/ Init

NextOnce ==
    \/ iter = <<>> /\ NextApi
    \/ iter # <<>> /\ Next

SpecOnce == InitOnce /\ [][NextOnce]_vars

\* ------------------------------------------------------------------------
\* C19: no retries. A facade call hands at most one URL to request_raw,
\* whether it succeeds or fails. In a pagination sequence a failed fetch is
\* the last fetch of its pull, whose result is that error; a fetch that
\* succeeded is followed by the fetch of the next page and its page is
\* never fetched again.
\* ------------------------------------------------------------------------
C19_NoRetry ==
    /\ iter = <<>> => Len(sent) <= 1
    /\ iter # <<>> =>
         \A i \in Ids :
            /\ \A k \in Pulls(i) : \A c \in CallsIn(i, k) :
                   ~CallOk(c) => (c = Cut(i, k) /\ ErrAt(i, k))
            /\ \A c \in 1 .. Len(log[i]) : \A d \in 1 .. Len(log[i]) :
                   (c < d /\ CallOk(c)) => log[i][d] # log[i][c]
            /\ \A c \in 1 .. Len(log[i]) - 1 :
                   CallOk(c) => log[i][c + 1] = pages[log[i][c]].next_page.n

\* a failed facade call has made its one request
C19_Witness ==
    /\ iter = <<>>
    /\ ret.tag = "Err" /\ ret.kind = "RequestError"
    /\ Len(sent) = 1

\* a pull has ended with the error of its one failed fetch, and the next
\* pull has fetched that page again
C19_WitnessPull ==
    /\ iter # <<>>
    /\ \E i \in Ids : \E k \in Pulls(i) :
          /\ ErrAt(i, k) /\ k < Len(out[i])
          /\ Cut(i, k + 1) > Cut(i, k)
          /\ log[i][Cut(i, k) + 1] = log[i][Cut(i, k)]

\* ------------------------------------------------------------------------
\* C20: when every fetch succeeds, a sequence over a chain of pages that
\* ends with next_page = None ends itself: the pull after the last document
\* returns None, no pull makes more fetches than the chain has pages, and
\* when the sequence has ended it has made exactly one fetch per page of
\* the chain.
\* ------------------------------------------------------------------------
RECURSIVE ChainPages(_)
ChainPages(s) ==
    <<s>> \o (IF pages[s].next_page.some THEN ChainPages(pages[s].next_page.n) ELSE <<>>)

C20_FiniteChainEnds ==
    \A i \in Ids :
        AllFetchesOk(i) =>
            /\ Len(log[i]) <= Len(ChainPages(initial[i]))
            /\ Len(out[i]) > Len(ChainDocs(initial[i])) =>
                   out[i][Len(ChainDocs(initial[i])) + 1] = NoneItem
            /\ \A k \in Pulls(i) :
                   out[i][k] = NoneItem =>
                       /\ Cut(i, k) = Len(ChainPages(initial[i]))
                       /\ log[i] = ChainPages(initial[i])

\* a sequence over a chain of three pages has ended after three fetches
C20_Witness ==
    \E i \in Ids :
        /\ AllFetchesOk(i)
        /\ Len(ChainPages(initial[i])) = 3
        /\ out[i] # <<>> /\ out[i][Len(out[i])] = NoneItem
        /\ Len(log[i]) = 3

\* ------------------------------------------------------------------------
\* C28: rate_limit is total: whatever the body of a 429 is, the result is
\* one of Utf8Error, SerializeError or RateLimitError, never a panic.
\* ------------------------------------------------------------------------
C28_RateLimitTotal ==
    \A b \in Backends :
        (Returned(b) /\ Throttled) =>
            /\ res[b].tag = "Err"
            /\ res[b].kind \in {"Utf8Error", "SerializeError", "RateLimitError"}

\* ------------------------------------------------------------------------
\* C29: the values of a rate-limit body are converted exactly: reset_after
\* is resetAfter milliseconds, reset is the instant reset milliseconds
\* after the epoch, and a value that has no such representation is a
\* decode error, never another time or duration.
\* ------------------------------------------------------------------------
\* the body is an object with an integer reset and an integer resetAfter
IntegerRateLimit(body) ==
    /\ body.utf8
    /\ body.doc.kind = "object"
    /\ body.doc.reset.t = "int"
    /\ body.doc.resetAfter.t = "int"
    /\ body.doc.reset_after.t = "absent"

\* a millisecond timestamp NaiveDateTime can hold; a millisecond count
\* Duration::from_millis can take
IsInstant(x) == x.k = 0
IsDuration(x) == ~IsNegative(x) /\ (x.k < 2 \/ (x.k = 2 /\ x.v < 0))

\* the instant x milliseconds after the epoch
InstantOf(x) ==
    [secs |-> x.v \div 1000, nsecs |-> (x.v % 1000) * 1000000, millis |-> Wide(0, 0)]

C29_ExactConversion ==
    \A b \in Backends :
        (Returned(b) /\ Throttled /\ IntegerRateLimit(resp.body)) =>
            IF IsInstant(resp.body.doc.reset.n) /\ IsDuration(resp.body.doc.resetAfter.n)
            THEN /\ res[b].kind = "RateLimitError"
                 /\ res[b].limit.reset = InstantOf(resp.body.doc.reset.n)
                 /\ res[b].limit.reset_after.millis = resp.body.doc.resetAfter.n
            ELSE res[b] = Err("SerializeError")

\* the conversion is exact where it returns: for a reset from the epoch on
\* (or a whole negative second) and a resetAfter that is not negative
C29_ExactWhenInRange ==
    \A b \in Backends :
        (Returned(b) /\ Throttled /\ IntegerRateLimit(resp.body)
            /\ IsInstant(resp.body.doc.reset.n)
            /\ (resp.body.doc.reset.n.v >= 0 \/ resp.body.doc.reset.n.v % 1000 = 0)
            /\ IsDuration(resp.body.doc.resetAfter.n)) =>
                /\ res[b].kind = "RateLimitError"
                /\ res[b].limit.reset = InstantOf(resp.body.doc.reset.n)
                /\ res[b].limit.reset_after.millis = resp.body.doc.resetAfter.n

\* a negative resetAfter has come back as a duration of 2^64 - 1 ms
C29_Wrapped ==
    /\ Throttled /\ IntegerRateLimit(resp.body)
    /\ resp.body.doc.resetAfter.n = Wide(0, -1)
    /\ res["ureq"].kind = "RateLimitError"
    /\ res["ureq"].limit.reset_after.millis = Wide(2, -1)

\* ------------------------------------------------------------------------
\* C25: the error of MapId parsing tells what was wrong: InvalidHash only
\* for an input of hash length with a non-hex character, ParseIntError only
\* for an input of another length that is no hex number fitting usize, and
\* each of them whenever that is the case; an input of 40 characters never
\* gives a key.
\* ------------------------------------------------------------------------
FitsUsize(s) == AllHex(s) /\ s # <<>> /\ Len(Base16(s)) <= USIZE_HEX_DIGITS

IsParseIntError(r) == r.tag = "Err" /\ r.kind \in {"Empty", "InvalidDigit", "PosOverflow"}

C25_ErrorKinds ==
    \A c \in {"String", "str"} :
        conv[c] # NotYet =>
            /\ conv[c] = InvalidHash <=> (String_len(input) = HASH_LEN /\ ~AllHex(input))
            /\ IsParseIntError(conv[c]) <=> (String_len(input) # HASH_LEN /\ ~FitsUsize(input))
            /\ Len(input) = HASH_LEN => conv[c].tag # "Key"

\* the same for the inputs that do not start with a sign
C25_ErrorKindsUnsigned ==
    \A c \in {"String", "str"} :
        (conv[c] # NotYet /\ (input = <<>> \/ Head(input) # "+")) =>
            /\ conv[c] = InvalidHash <=> (String_len(input) = HASH_LEN /\ ~AllHex(input))
            /\ IsParseIntError(conv[c]) <=> (String_len(input) # HASH_LEN /\ ~FitsUsize(input))
            /\ Len(input) = HASH_LEN => conv[c].tag # "Key"

\* a hex string one character short of a hash has been reported as a
\* number that does not fit, not as an invalid hash
C25_ShortHash ==
    /\ Len(input) = HASH_LEN - 1 /\ AllHex(input)
    /\ conv["String"] = ParseIntError("PosOverflow")

\* ------------------------------------------------------------------------
\* C23: the first fetch of a sequence is for its start index, which is 0
\* for the accessors without a page argument; every later fetch is for the
\* next_page of the page fetched last (the page a failed fetch asked for
\* was not fetched), whatever the index, last_page and total_docs are.
\* ------------------------------------------------------------------------
\* the last call before c that returned a page, 0 when there is none
LastFetched(c) ==
    IF \E d \in 1 .. (c - 1) : CallOk(d)
    THEN CHOOSE d \in 1 .. (c - 1) : CallOk(d) /\ \A e \in (d + 1) .. (c - 1) : ~CallOk(e)
    ELSE 0

C23_CursorRule ==
    /\ maps_hot.self.curr.next_page = Some(0) /\ maps_hot.log = <<>>
    /\ async_maps_hot.self.num = Some(0) /\ async_maps_hot.log = <<>>
    /\ \A i \in Ids : \A c \in 1 .. Len(log[i]) :
          IF LastFetched(c) = 0
          THEN log[i][c] = initial[i]
          ELSE /\ pages[log[i][LastFetched(c)]].next_page.some
               /\ log[i][c] = pages[log[i][LastFetched(c)]].next_page.n

\* both variants have gone from their start page to a page that is not the
\* following index, as next_page said
C23_Witness ==
    \A i \in Ids :
        /\ Len(log[i]) >= 2 /\ CallOk(1)
        /\ log[i][2] = pages[log[i][1]].next_page.n
        /\ log[i][2] > log[i][1] + 1

\* ------------------------------------------------------------------------
\* C26: a failed fetch of page n leaves the cursor on n.
\* ------------------------------------------------------------------------
\* where a sequence stands: the page it will fetch next and the documents of
\* the current page it has not handed out yet
Position(s) ==
    IF s.variant = "sync"
    THEN [cursor |-> s.curr.next_page, pending |-> MapOk(s.curr.docs)]
    ELSE [cursor |-> s.num, pending |-> IF s.next.some THEN s.next.items ELSE <<>>]

\* sequence i has just been pulled and the pull returned an error
FailingPull(i) ==
    /\ Len(out'[i]) = Len(out[i]) + 1
    /\ out'[i][Len(out'[i])].tag = "Err"

IsPrefix(s, t) == Len(s) <= Len(t) /\ SubSeq(t, 1, Len(s)) = s

\* C26 (as stated): in both variants a pull whose fetch of page n fails
\* leaves the sequence in the state it had before the pull, the next pull
\* fetches n again, and when that succeeds the sequence goes on with the
\* documents of n, none lost and none twice.
C26_StateAsBeforePull ==
    [][\A i \in Ids : FailingPull(i) => Position(iter'[i]) = Position(iter[i])]_vars

\* C26 (amended): in both variants a pull whose fetch of page n fails leaves
\* the sequence in the state it had before that fetch: the cursor is on n
\* and no document is pending (the state before the pull when n was the only
\* page the pull fetched); the next pull fetches n again, when that succeeds
\* the sequence goes on with the first document of n, and what the consumer
\* has been handed is always a prefix of the documents of the chain of
\* pages, none lost and none twice.
C26_FailedFetchKeepsCursor ==
    /\ [][\A i \in Ids :
            FailingPull(i) =>
                /\ Position(iter'[i]) =
                       [cursor |-> Some(log'[i][Len(log'[i])]), pending |-> <<>>]
                /\ Len(log'[i]) = Len(log[i]) + 1 =>
                       Position(iter'[i]) = Position(iter[i])]_vars
    /\ [](\A i \in Ids :
            /\ IsPrefix(ItemsOf(out[i], Len(out[i])), ChainDocs(initial[i]))
            /\ \A k \in Pulls(i) :
                   (ErrAt(i, k) /\ k < Len(out[i])) =>
                       LET n == log[i][Cut(i, k)]
                       IN  /\ FetchesIn(i, k + 1) # <<>>
                           /\ Head(FetchesIn(i, k + 1)) = n
                           /\ (CallOk(Cut(i, k) + 1) /\ pages[n].docs # <<>>) =>
                                  out[i][k + 1] = SomeOk(Head(pages[n].docs)))

\* both variants failed to fetch a page after handing out a document of an
\* earlier page, and went on with the first document of that page
C26_Witness ==
    \A i \in Ids : \E k \in Pulls(i) :
        /\ k >= 2 /\ k < Len(out[i])
        /\ ErrAt(i, k)
        /\ out[i][k - 1].tag = "Ok"
        /\ pages[log[i][Cut(i, k)]].docs # <<>>
        /\ out[i][k + 1] = SomeOk(Head(pages[log[i][Cut(i, k)]].docs))

\* a sequence that fetched a page without documents and then failed to fetch
\* the page after it
C26_MovedThenFailed ==
    \E i \in Ids : \E k \in Pulls(i) :
        /\ ErrAt(i, k)
        /\ Len(FetchesIn(i, k)) >= 2

\* ------------------------------------------------------------------------
\* C27: the blocking iterator stays ended and never goes back: once a pull
\* has returned None every later pull returns None and fetches nothing, the
\* iterator that has ended is left as it is by every pull, and the pages a
\* sequence asks for never decrease (the same page again after a failure, a
\* later page after a success).
\* ------------------------------------------------------------------------
Ended(s) == s.curr.docs = <<>> /\ ~s.curr.next_page.some

C27_StaysEnded ==
    /\ [](\A i \in SyncIds :
            /\ \A k \in Pulls(i) :
                   out[i][k] = NoneItem =>
                       \A m \in (k + 1) .. Len(out[i]) :
                           out[i][m] = NoneItem /\ FetchesIn(i, m) = <<>>
            /\ (out[i] # <<>> /\ out[i][Len(out[i])] = NoneItem) => Ended(iter[i])
            /\ \A c \in 1 .. Len(log[i]) : \A d \in (c + 1) .. Len(log[i]) :
                   /\ log[i][c] <= log[i][d]
                   /\ CallOk(c) => log[i][c] < log[i][d])
    /\ [][\A i \in SyncIds :
            Ended(iter[i]) =>
                /\ iter'[i] = iter[i]
                /\ log'[i] = log[i]
                /\ out'[i] # out[i] => out'[i] = Append(out[i], NoneItem)]_vars

\* a blocking iterator that handed out documents of two pages, ended, and
\* was pulled twice more
C27_Witness ==
    \E i \in SyncIds : \E k \in Pulls(i) :
        /\ out[i][k] = NoneItem
        /\ k + 2 <= Len(out[i])
        /\ \E a, b \in 1 .. (k - 1) :
               /\ out[i][a].tag = "Ok" /\ out[i][b].tag = "Ok"
               /\ out[i][a].item[1] # out[i][b].item[1]

\* ------------------------------------------------------------------------
\* Decoding a page document
\*
\* A JSON object is the sequence of its members in the order of the text; a
\* document of the docs array is an object that stands for one map and is
\* told from the others by a label.
\* ------------------------------------------------------------------------
JNull == [t |-> "null", n |-> 0, items |-> <<>>]
JNumber(n) == [t |-> "number", n |-> n, items |-> <<>>]
JFloat == [t |-> "float", n |-> 0, items |-> <<>>]
JString == [t |-> "string", n |-> 0, items |-> <<>>]
JArray(items) == [t |-> "array", n |-> 0, items |-> items]
JMap(label) == [t |-> "object", n |-> label, items |-> <<>>]

Member(name, value) == [name |-> name, value |-> value]

JObject(members) == [kind |-> "object", members |-> members]
JNotObject == [kind |-> "other", members |-> <<>>]

\* the field of Page a member name stands for: the field's own name or its
\* serde alias; any other member is skipped
PageField(name) ==
    CASE name = "docs" -> "docs"
      [] name \in {"total_docs", "totalDocs"} -> "total_docs"
      [] name \in {"last_page", "lastPage"} -> "last_page"
      [] name \in {"prev_page", "prevPage"} -> "prev_page"
      [] name \in {"next_page", "nextPage"} -> "next_page"
      [] OTHER -> "ignored"

PageFields == {"docs", "total_docs", "last_page", "prev_page", "next_page"}

Value(ok, value) == [ok |-> ok, value |-> value]

\* usize: a JSON integer that is not negative
usize_deserialize(v) ==
    IF v.t = "number" /\ v.n >= 0 THEN Value(TRUE, v.n) ELSE Value(FALSE, 0)

\* variant of the decoding of Option<usize> that reads null as 0
Option_usize_deserialize_NullIsZero(v) ==
    IF v.t = "null" THEN Value(TRUE, Some(0))
    ELSE IF usize_deserialize(v).ok THEN Value(TRUE, Some(usize_deserialize(v).value))
    ELSE Value(FALSE, None)

\* Option<usize>: null is None, anything else is read as a usize
Option_usize_deserialize(v) ==
    IF v.t = "null" THEN Value(TRUE, None)
    ELSE IF usize_deserialize(v).ok THEN Value(TRUE, Some(usize_deserialize(v).value))
    ELSE Value(FALSE, None)

\* one document: the label of the map the object stands for
Map_deserialize(v) ==
    IF v.t = "object" THEN Value(TRUE, v.n) ELSE Value(FALSE, 0)

\* VecDeque<Map>: an array whose elements all decode, in the array's order
VecDeque_deserialize(v) ==
    IF v.t = "array" /\ \A j \in 1 .. Len(v.items) : Map_deserialize(v.items[j]).ok
    THEN Value(TRUE, [j \in 1 .. Len(v.items) |-> Map_deserialize(v.items[j]).value])
    ELSE Value(FALSE, <<>>)

NoPage ==
    [docs |-> <<>>, total_docs |-> 0, last_page |-> 0, prev_page |-> None, next_page |-> None]

PageOk(page) == [tag |-> "Ok", page |-> page]
PageErr == [tag |-> "Err", page |-> NoPage]

\* serde_json::from_str::<Page<Map>> with the derived Deserialize: a field
\* given twice is an error, a missing docs, total_docs or last_page is an
\* error, a missing prev_page or next_page is None
Page_from_str(doc) ==
    IF doc.kind # "object" THEN PageErr
    ELSE
    LET ms == doc.members
        At(f) == {j \in 1 .. Len(ms) : PageField(ms[j].name) = f}
        Has(f) == At(f) # {}
        Val(f) == ms[CHOOSE j \in At(f) : TRUE].value
        docs == VecDeque_deserialize(Val("docs"))
        total == usize_deserialize(Val("total_docs"))
        last == usize_deserialize(Val("last_page"))
        prev == IF Has("prev_page") THEN Option_usize_deserialize(Val("prev_page"))
                ELSE Value(TRUE, None)
        next == IF Has("next_page") THEN Option_usize_deserialize(Val("next_page"))
                ELSE Value(TRUE, None)
    IN  IF \E f \in PageFields : Cardinality(At(f)) > 1 THEN PageErr
        ELSE IF ~Has("docs") \/ ~Has("total_docs") \/ ~Has("last_page") THEN PageErr
        ELSE IF ~docs.ok \/ ~total.ok \/ ~last.ok \/ ~prev.ok \/ ~next.ok THEN PageErr
        ELSE PageOk([docs |-> docs.value, total_docs |-> total.value,
                     last_page |-> last.value, prev_page |-> prev.value,
                     next_page |-> next.value])

\* the documents of the model: arrays of labelled maps, one of them with an
\* element that is no map
DocArrays ==
    {JArray(<<>>), JArray(<<JMap(1)>>), JArray(<<JMap(2), JMap(1)>>),
     JArray([j \in 1 .. 10 |-> JMap(j)]),
     JArray(<<JMap(1), JString>>), JNull}

Absent == [t |-> "absent", n |-> 0, items |-> <<>>]

Present(ms) == SelectSeq(ms, LAMBDA m : m.value.t # "absent")

Reverse(ms) == [j \in 1 .. Len(ms) |-> ms[Len(ms) + 1 - j]]

\* the object the server sends
WireObject(docs, total, last, prev, next) ==
    Present(<<Member("docs", docs), Member("totalDocs", total), Member("lastPage", last),
              Member("prevPage", prev), Member("nextPage", next)>>)

\* the same object under the names of the fields of Page
RustObject(docs, total, last, prev, next) ==
    Present(<<Member("docs", docs), Member("total_docs", total), Member("last_page", last),
              Member("prev_page", prev), Member("next_page", next)>>)

WirePages ==
    {JNotObject}
      \cup {JObject(WireObject(d, JNumber(35367), JNumber(3536), pp, np)) :
               d \in DocArrays, pp \in {JNull, JNumber(0), Absent},
               np \in {JNull, JNumber(1), JNumber(3536), Absent}}
      \cup {JObject(Reverse(WireObject(JArray(<<JMap(2), JMap(1)>>), t, l, JNumber(1), np)) \o
                    <<Member("extra", JString)>>) :
               t \in {JNumber(0), JNumber(-1), JFloat, JNull, Absent},
               l \in {JNumber(0), JString, Absent},
               np \in {JNull, JNumber(2), JNumber(-1), JString}}
      \cup {JObject(RustObject(JArray(<<JMap(1)>>), JNumber(1), JNumber(0), pp, np)) :
               pp \in {JNull, JNumber(0)}, np \in {JNull, JNumber(1)}}
      \cup {JObject(WireObject(JArray(<<JMap(1)>>), JNumber(1), JNumber(0), JNull, JNull) \o
                    <<Member(name, JNumber(1))>>) :
               name \in {"total_docs", "nextPage", "docs", "page"}}

NotDecoded == <<>>

InitPage ==
    /\ input \in WirePages
    /\ conv = NotDecoded
    /\ pages = <<>> /\ failAt = {} /\ initial = <<>>
    /\ iter = <<>> /\ out = <<>> /\ log = <<>> /\ cut = <<>>
    /\ resp = <<>> /\ res = <<>>
    /\ call = <<>> /\ sent = <<>> /\ ret = <<>>

\* the page accessor decodes the body it received
DecodePage ==
    /\ conv = NotDecoded
    /\ conv' = <<Page_from_str(input)>>
    /\ UNCHANGED <<pages, failAt, initial, iter, out, log, cut, resp, res,
                   input, call, sent, ret>>

NextPage == DecodePage

SpecPage == InitPage /\ [][NextPage]_vars

\* ------------------------------------------------------------------------
\* C21: decoding a page document whose members are docs, totalDocs,
\* lastPage, prevPage and nextPage gives a page whose total_docs, last_page,
\* prev_page and next_page are the values of those members, null as None and
\* a number n as Some(n), and whose docs are the documents of the array, as
\* many and in the same order; for the document of the test (10 documents,
\* 35367, 3536, null, 1) the page has 10 documents, 35367, 3536, None and
\* Some(1).
\* ------------------------------------------------------------------------
ValueOf(ms, name) == ms[CHOOSE j \in 1 .. Len(ms) : ms[j].name = name].value

Names(ms) == {ms[j].name : j \in 1 .. Len(ms)}

IsNat(v) == v.t = "number" /\ v.n >= 0
IsOptNat(v) == v.t = "null" \/ IsNat(v)
IsMaps(v) == v.t = "array" /\ \A j \in 1 .. Len(v.items) : v.items[j].t = "object"

\* a page document as the server sends it: each of the five members once
\* and of its type, other members allowed
IsWirePage(doc) ==
    /\ doc.kind = "object"
    /\ {"docs", "totalDocs", "lastPage", "prevPage", "nextPage"} \subseteq Names(doc.members)
    /\ \A j, k \in 1 .. Len(doc.members) :
           (j # k /\ PageField(doc.members[j].name) # "ignored") =>
               PageField(doc.members[j].name) # PageField(doc.members[k].name)
    /\ IsMaps(ValueOf(doc.members, "docs"))
    /\ IsNat(ValueOf(doc.members, "totalDocs")) /\ IsNat(ValueOf(doc.members, "lastPage"))
    /\ IsOptNat(ValueOf(doc.members, "prevPage")) /\ IsOptNat(ValueOf(doc.members, "nextPage"))

OptionOf(v) == IF v.t = "null" THEN None ELSE Some(v.n)

Fixture ==
    JObject(WireObject(JArray([j \in 1 .. 10 |-> JMap(j)]),
                       JNumber(35367), JNumber(3536), JNull, JNumber(1)))

C21_PageDecode ==
    /\ Page_from_str(Fixture) =
           PageOk([docs |-> [j \in 1 .. 10 |-> j], total_docs |-> 35367,
                   last_page |-> 3536, prev_page |-> None, next_page |-> Some(1)])
    /\ (conv # NotDecoded /\ IsWirePage(input)) =>
           LET ms == input.members
               page == conv[1].page
           IN  /\ conv[1].tag = "Ok"
               /\ page.total_docs = ValueOf(ms, "totalDocs").n
               /\ page.last_page = ValueOf(ms, "lastPage").n
               /\ page.prev_page = OptionOf(ValueOf(ms, "prevPage"))
               /\ page.next_page = OptionOf(ValueOf(ms, "nextPage"))
               /\ Len(page.docs) = Len(ValueOf(ms, "docs").items)
               /\ \A j \in 1 .. Len(page.docs) : page.docs[j] = ValueOf(ms, "docs").items[j].n

\* the document of the test has been decoded
C21_Witness ==
    /\ input = Fixture
    /\ conv # NotDecoded
    /\ conv[1].tag = "Ok"
    /\ Len(conv[1].page.docs) = 10
    /\ conv[1].page.prev_page = None /\ conv[1].page.next_page = Some(1)

\* a document with a member given under both of its names is refused
C21_Refused ==
    /\ conv # NotDecoded
    /\ input.kind = "object"
    /\ {"totalDocs", "total_docs"} \subseteq Names(input.members)
    /\ conv[1].tag = "Err"

\* ------------------------------------------------------------------------
\* Comparing user records
\* ------------------------------------------------------------------------
\* #[derive(PartialEq)] on BeatSaverUser: eq compares the fields one by one
BeatSaverUser_eq(a, b) == a.id = b.id /\ a.username = b.username

\* ne of the derived PartialEq
BeatSaverUser_ne(a, b) == a.id # b.id \/ a.username # b.username

UserIds == {Fill("5", 24), Fill("a", 24), <<>>}
UserNames == {<<"q">>, <<"q", "w">>, <<>>}

UserRecords == {BeatSaverUser(id, name) : id \in UserIds, name \in UserNames}

NotCompared == <<>>

InitUser ==
    /\ input \in UserRecords \X UserRecords
    /\ conv = [eq |-> NotCompared, ne |-> NotCompared]
    /\ pages = <<>> /\ failAt = {} /\ initial = <<>>
    /\ iter = <<>> /\ out = <<>> /\ log = <<>> /\ cut = <<>>
    /\ resp = <<>> /\ res = <<>>
    /\ call = <<>> /\ sent = <<>> /\ ret = <<>>

\* input[1] == input[2]
UserEq ==
    /\ conv.eq = NotCompared
    /\ conv' = [conv EXCEPT !.eq = <<BeatSaverUser_eq(input[1], input[2])>>]
    /\ UNCHANGED <<pages, failAt, initial, iter, out, log, cut, resp, res,
                   input, call, sent, ret>>

\* input[1] != input[2]
UserNe ==
    /\ conv.ne = NotCompared
    /\ conv' = [conv EXCEPT !.ne = <<BeatSaverUser_ne(input[1], input[2])>>]
    /\ UNCHANGED <<pages, failAt, initial, iter, out, log, cut, resp, res,
                   input, call, sent, ret>>

NextUser == UserEq \/ UserNe

SpecUser == InitUser /\ [][NextUser]_vars

\* ------------------------------------------------------------------------
\* C22: two user records compare equal exactly when their ids are the same,
\* whatever their usernames are.
\* ------------------------------------------------------------------------
C22_EqualityById ==
    /\ conv.eq # NotCompared => (conv.eq[1] <=> input[1].id = input[2].id)
    /\ conv.ne # NotCompared => (conv.ne[1] <=> input[1].id # input[2].id)

\* what the comparison does: equal exactly when id and username are both the
\* same, so records with different ids are unequal
C22_EqualityByFields ==
    /\ conv.eq # NotCompared =>
          /\ conv.eq[1] <=> input[1] = input[2]
          /\ input[1].id # input[2].id => ~conv.eq[1]
    /\ conv.ne # NotCompared => (conv.ne[1] <=> input[1] # input[2])

\* two records with the same id and different usernames compared unequal
C22_SameIdUnequal ==
    /\ conv.eq = <<FALSE>>
    /\ input[1].id = input[2].id /\ input[1].id # <<>>
    /\ input[1].username # input[2].username

\* ------------------------------------------------------------------------
\* Pagination over the accessor of a client
\*
\* The sequences of one client fetch their pages with the client's
\* maps_hot_page; resp is what the transport answers to the fetches that
\* fail (the calls of failAt), every other fetch is answered with the page.
\* ------------------------------------------------------------------------
\* the pull of a sequence that panicked in the accessor
Panicked_item == [tag |-> "Panic", item |-> <<0, 0>>, err |-> Panic]

\* variant of the step below that reports every failed fetch as a RequestError
Propagate_Generic(step, e) ==
    IF step.item.tag # "Err" THEN step
    ELSE [step EXCEPT !.item = SomeErr(Err("RequestError"))]

\* `Err(e) => return Some(Err(e.into()))` of next(), and
\* `vec![Err(e.into())]` of the stream: the element of a fetch that failed
\* holds the e the accessor returned, and into() leaves a BeatSaverApiError
\* as it is; a panic of the accessor unwinds through the pull
Propagate(step, e) ==
    IF step.item.tag # "Err" THEN step
    ELSE IF e.tag = "Panic" THEN [step EXCEPT !.item = Panicked_item]
    ELSE [step EXCEPT !.item = SomeErr(e)]

\* PageIterator::next over maps_hot_page of ureq, r being the transport's
\* answer to a fetch that fails
UreqIterator_next(r, self, lg) ==
    LET step == PageIterator_next(self, lg)
    IN  Propagate(step, sync_maps_hot_page("ureq", r, step.log[Len(step.log)]).ret)

\* next() of the stream of iterate_page over maps_hot_page of reqwest or surf
ClientStream_next(client, r, self, lg) ==
    LET step == Stream_next(self, lg)
    IN  Propagate(step, async_maps_hot_page(client, r, step.log[Len(step.log)]).ret)

RateLimitBody(reset, resetAfter) ==
    Body(TRUE, JsonDoc("object", JsonInt(Wide(0, reset)), JsonInt(Wide(0, resetAfter)), JsonAbsent))

\* the answers to a fetch for which the accessor returns no page: no answer
\* at all, a 429 with a rate-limit document, with one whose reset is before
\* the epoch, and with another body
FailedAnswers ==
    {Response(FALSE, 200, TRUE, NoBody),
     Response(TRUE, 429, TRUE, RateLimitBody(1700000, 999)),
     Response(TRUE, 429, TRUE, RateLimitBody(-1, 1000)),
     Response(TRUE, 429, TRUE, NoBody)}

\* maps_hot of ureq and maps_hot of reqwest or surf over the same pages; one
\* of their first fetches fails
InitClients ==
    /\ failAt \in {{c} : c \in 1 .. FailWindow}
    /\ resp \in FailedAnswers
    /\ call \in {[i \in Ids |-> IF i = 1 THEN "ureq" ELSE b] : b \in {"reqwest", "surf"}}
    /\ pages \in {srv \in Servers : Canonical(srv, {0})}
    /\ initial = [i \in Ids |-> 0]
    /\ iter = [i \in Ids |-> IF i = 1 THEN maps_hot.self ELSE async_maps_hot.self]
    /\ log = [i \in Ids |-> IF i = 1 THEN maps_hot.log ELSE async_maps_hot.log]
    /\ out = [i \in Ids |-> <<>>]
    /\ cut = [i \in Ids |-> <<>>]
    /\ res = <<>> /\ input = <<>> /\ conv = <<>> /\ sent = <<>> /\ ret = <<>>

\* a sequence whose pull panicked is not pulled again
Usable(i) == \A k \in 1 .. Len(out[i]) : out[i][k].tag # "Panic"

ClientPull(i, r) ==
    /\ Usable(i)
    /\ Len(out[i]) < MaxPulls
    /\ iter' = [iter EXCEPT ![i] = r.self]
    /\ log' = [log EXCEPT ![i] = r.log]
    /\ out' = [out EXCEPT ![i] = Append(@, r.item)]
    /\ cut' = [cut EXCEPT ![i] = Append(@, Len(r.log))]
    /\ UNCHANGED <<pages, failAt, initial, resp, res, input, conv, call, sent, ret>>

\* the consumer calls next() on the blocking iterator of ureq
UreqPull ==
    \E i \in Ids :
        /\ IsSync(call[i])
        /\ ClientPull(i, UreqIterator_next(resp, iter[i], log[i]))

\* the consumer awaits next() on the stream of reqwest or surf
StreamPull ==
    \E i \in Ids :
        /\ ~IsSync(call[i])
        /\ ~iter[i].done
        /\ ClientPull(i, ClientStream_next(call[i], resp, iter[i], log[i]))

NextClients == UreqPull \/ StreamPull

SpecClients == InitClients /\ [][NextClients]_vars

\* ------------------------------------------------------------------------
\* C24: when the transport answers the fetch of page n of a sequence with a
\* 429 and a well-formed rate-limit body, the element of that pull is
\* Err(RateLimitError) with the reset and reset_after of that body, which is
\* no RequestError, and every document of the pages fetched before n has
\* been yielded before it; both variants, every backend.
\* ------------------------------------------------------------------------
FetchFailedIn(i, k) == FetchesIn(i, k) # <<>> /\ ~CallOk(Cut(i, k))

C24_ThrottledElement ==
    \A i \in Ids : \A k \in Pulls(i) :
        (FetchFailedIn(i, k) /\ Throttled /\ WellFormedRateLimit(resp.body)) =>
            /\ out[i][k].tag = "Err"
            /\ out[i][k].err.tag = "Err"
            /\ out[i][k].err.kind = "RateLimitError"
            /\ out[i][k].err.kind # "RequestError"
            /\ out[i][k].err.limit.reset = InstantOf(resp.body.doc.reset.n)
            /\ out[i][k].err.limit.reset_after.millis = resp.body.doc.resetAfter.n
            /\ ItemsBeforeErr(i, k)

\* both sequences handed out two documents, were throttled while fetching
\* the next page, and returned the rate limit of the body (reset 1700 s,
\* reset_after 999 ms)
C24_Witness ==
    /\ resp = Response(TRUE, 429, TRUE, RateLimitBody(1700000, 999))
    /\ \A i \in Ids : \E k \in Pulls(i) :
          /\ k >= 3
          /\ FetchFailedIn(i, k)
          /\ out[i][k - 1].tag = "Ok" /\ out[i][k - 2].tag = "Ok"
          /\ out[i][k].err.kind = "RateLimitError"
          /\ out[i][k].err.limit.reset.secs = 1700
          /\ out[i][k].err.limit.reset_after.millis = Wide(0, 999)

\* a sequence whose fetch got no answer returned a RequestError, and one
\* whose fetch was answered with a reset before the epoch panicked
C24_OtherFailures ==
    \E i \in Ids : \E k \in Pulls(i) :
        \/ ~resp.send /\ out[i][k].tag = "Err" /\ out[i][k].err = Err("RequestError")
        \/ out[i][k].tag = "Panic"
====
